---- MODULE Spec2Model ----
(***************************************************************************)
(* The MCP tool-integration subsystem of sandbox-agent:                    *)
(*   src/src/tools/mcp/mcp_client.py          MCPClient                    *)
(*   src/src/tools/mcp/mcp_server_manager.py  MCPServerManager             *)
(*   src/src/tools/mcp/mcp_tool_adapter.py    MCPToolAdapter and           *)
(*                                            MCPServerToolCollection      *)
(*   src/src/tools/mcp/mcp_registry.py        MCPRegistry                  *)
(*                                                                         *)
(* Objects (clients, processes, adapters) are entries of sequences; their  *)
(* identity is their index.  A tool name is the sequence of its "_"        *)
(* separated pieces, so f"{server}_{name}" is <<server>> \o name and the   *)
(* declared name "B_search" is the same string as the renamed "search" of  *)
(* provider B.                                                             *)
(*                                                                         *)
(* MCPClient.start and MCPClient._send_request contain no suspension       *)
(* point: Popen, write and readline are the blocking calls of subprocess.  *)
(* asyncio.wait_for therefore cannot expire while client.start() runs; it  *)
(* raises TimeoutError only when timeout <= 0, and then before start() has *)
(* run at all.  A readline on a live process that writes nothing blocks    *)
(* the calling thread: no step of the program is enabled until the         *)
(* process exits.                                                          *)
(***************************************************************************)
EXTENDS Integers, Sequences, FiniteSets, TLC

\* ------------------------------------------------------------------ bounds
MaxRetry == 2
MaxClients == 2
MaxProcs == 3
MaxDecl == 2
MaxNameLen == 3
MaxRequestId == 4
MaxAdapters == 3
MaxCalls == 3

\* --------------------------------------------------------------- constants
DefaultTimeout == 30
DefaultRetryCount == 3

Providers == {"A", "B"}
Names == Providers \cup {"X"}

\* What a launched provider process does with the initialize request: it
\* answers with a result ("ok"), it answers with a line _send_request raises
\* on ("error": an error object at line 117, or a line json.loads rejects at
\* line 113), or it writes nothing ("silent").
Kinds == {"ok", "error", "silent"}

\* Tool names a provider may declare: "search" and "B_search".
DeclNames == {<<"search">>, <<"B", "search">>}
DeclLists == UNION {[1..k -> DeclNames] : k \in 0..MaxDecl}

\* The inputSchema of a tool: the fields under "properties" and the fields
\* under "required".
Fields == {"msg"}

\* "msg" described under properties and required; required but not
\* described; described but optional; described by something that is not a
\* JSON object (field_info.get raises, line 32).
MsgRequired == [properties |-> {"msg"}, required |-> {"msg"}, objects |-> TRUE]
MsgUnlisted == [properties |-> {}, required |-> {"msg"}, objects |-> TRUE]
MsgOptional == [properties |-> {"msg"}, required |-> {}, objects |-> TRUE]
MsgNoObject == [properties |-> {"msg"}, required |-> {"msg"}, objects |-> FALSE]
Schemas == {MsgRequired, MsgUnlisted, MsgOptional, MsgNoObject}

\* The arguments of an invoke: {} and {"msg": "hi"}.
Methods == {"tools/call", "tools/list", "resources/read"}
ArgSets == {[f \in D |-> "hi"] : D \in SUBSET Fields}
Hi == [f \in {"msg"} |-> "hi"]

VARIABLES
    servers,              \* MCPServerManager.servers: name -> config
    config_file,          \* the configuration file save_config writes
    declared,             \* what each provider answers to tools/list
    inputSchema,          \* the inputSchema each provider gives its tools
    handshakes,           \* how each provider's processes may treat initialize
    langchain_tools,      \* UnifiedToolManager.langchain_tools: name -> tool
    tasks,                \* the stop_server tasks unregister_server created
                          \* that the event loop has yet to run
    calls,                \* the start_server calls made next to one
                          \* another, each with its position
    procs,                \* every process launched so far
    clientObjs,           \* every MCPClient constructed so far
    clients,              \* MCPServerManager.clients: name -> client
    tool_collections,     \* MCPServerManager.tool_collections
    adapters,             \* every MCPToolAdapter constructed so far
    mcp_tools,            \* MCPRegistry._mcp_tools: tool name -> adapter
    mcp_tools_by_server,  \* MCPRegistry._mcp_tools_by_server
    loaded_servers,       \* MCPRegistry._loaded_servers
    loadOrder,            \* history: the providers loaded so far, in order,
                          \* while each was loaded once, in full, and
                          \* nothing was unloaded
    pc,                   \* position of the running start_server call
    cur,                  \* its locals: name, client, caller
    attempt,              \* its loop variable
    tries,                \* its attempts, one record per iteration; kept
                          \* until the step after it returns
    ret                   \* the call that returned in the last step

supVars == <<servers, config_file, declared, inputSchema, handshakes, langchain_tools, tasks, calls, procs, clientObjs, clients, tool_collections>>
regVars == <<adapters, mcp_tools, mcp_tools_by_server, loaded_servers, loadOrder>>
ctlVars == <<pc, cur, attempt, tries>>
vars == <<servers, config_file, declared, inputSchema, handshakes, langchain_tools, tasks, calls, procs, clientObjs, clients, tool_collections,
          adapters, mcp_tools, mcp_tools_by_server, loaded_servers, loadOrder,
          pc, cur, attempt, tries, ret>>

EmptyMap == [k \in {} |-> 0]

\* A JSON-RPC request as _send_request writes it.
NoRequest == [method |-> "", name |-> <<>>, arguments |-> EmptyMap, id |-> 0]

\* The text an adapter returns: the joined text parts of a result, or
\* f"MCP工具 {name} 执行失败: {cause}".
NoText == [kind |-> "none", tool |-> <<>>, cause |-> "", parts |-> <<>>]

\* The locals of the running call: of start_server (name, client, caller),
\* of a request on a client (adapter, key, args, request) and of
\* start_all_auto_servers (todo: the configs its loop has yet to visit).
NoCur == [name |-> "", client |-> 0, caller |-> "", adapter |-> 0,
          key |-> <<>>, args |-> EmptyMap, request |-> NoRequest,
          alive |-> FALSE, todo |-> <<>>, results |-> EmptyMap]

\* What the call that returned has returned (ok, count, tools, text) or
\* raised, with its history: the client it used and whether that client's
\* process ran when the call began, whether call_tool ran, how often
\* stdin.write ran, the requests that entered the pipe, the line readline
\* returned and the request that line answers.
\* A tool as a caller of UnifiedToolManager holds it: a native tool, known
\* by its name, or an adapter of the registry.
NoTool == [kind |-> "none", name |-> <<>>, id |-> 0]
NativeTool(name) == [kind |-> "native", name |-> name, id |-> 0]
McpTool(a) == [kind |-> "mcp", name |-> <<>>, id |-> a]

NoRet == [op |-> "none", name |-> "", ok |-> FALSE, count |-> 0, tools |-> <<>>,
          raised |-> "none", text |-> NoText, adapter |-> 0, key |-> <<>>,
          args |-> EmptyMap, client |-> 0, called |-> FALSE, writes |-> 0,
          requests |-> <<>>, line |-> [tag |-> "none", shape |-> "", blocks |-> <<>>],
          answers |-> 0, alive |-> FALSE, loaded |-> EmptyMap,
          schemas |-> <<>>, results |-> EmptyMap, tool |-> NoTool,
          list |-> <<>>, stats |-> EmptyMap, keyword |-> <<>>]

Drop(f, k) == [x \in DOMAIN f \ {k} |-> f[x]]
Put(f, k, v) == [x \in DOMAIN f \cup {k} |-> IF x = k THEN v ELSE f[x]]

\* No configuration file; otherwise data is the file's "servers" object,
\* a sequence of <<name, members>>, and saved the configs it was written
\* from.
NoFile == [exists |-> FALSE, data |-> <<>>, saved |-> EmptyMap]

\* ------------------------------------------------------------- MCPClient
IsAliveUnpolled(objs, ps, c) == objs[c].process # 0

IsAlive(objs, ps, c) ==
    objs[c].process # 0 /\ ps[objs[c].process].alive

\* terminate(), wait(5), and kill() + wait() on expiry: the process is gone.
Terminate(ps, i) == [ps EXCEPT ![i].alive = FALSE]

StopProcs(objs, ps, c) ==
    IF objs[c].process # 0 THEN Terminate(ps, objs[c].process) ELSE ps

StopObjsKeepsHandle(objs, c) == objs

StopObjs(objs, c) == [objs EXCEPT ![c].process = 0]

\* The counter stands still.
NextIdReused(objs, c) == objs

\* _next_id
NextId(objs, c) == [objs EXCEPT ![c].request_id = @ + 1]

\* MCPClient.tools_cache: None, or the list list_tools stored.
NoCache == [set |-> FALSE, tools |-> <<>>]
Cache(list) == [set |-> TRUE, tools |-> list]

\* list_tools 137-138: the cache is consulted before anything is sent.
NeverCached(objs, c) == FALSE

Cached(objs, c) == objs[c].tools_cache.set

\* The lines readline() can return from process p: its answer if it wrote
\* one, end of file once it has exited or closed its stdout; nothing while
\* it is alive and mute.
ReadableLines(p) ==
    (IF p.kind = "silent" THEN {} ELSE {p.kind})
        \cup (IF p.alive /\ p.out THEN {} ELSE {"eof"})

\* stdin.write(request) on process i put request id into the pipe; its
\* answer is the next line not yet read.
Written(ps, i, id) == [ps EXCEPT ![i].awaiting = Append(@, id)]

\* readline() on process i has returned.
Received(ps, i) == [ps EXCEPT ![i].awaiting = Tail(@)]

\* ------------------------------------------------------ MCPServerManager
Status(objs, ps, cl, n) ==
    IF n \in DOMAIN cl /\ IsAlive(objs, ps, cl[n]) THEN "running" ELSE "stopped"

\* failed is history: the tools/list request of a load_tools on this
\* collection has failed since its cache was last empty.
NewCollection(c) ==
    [client |-> c, loaded |-> FALSE, tools |-> <<>>, failed |-> FALSE]

\* MCPServerConfig(name, command, description, auto_start, timeout,
\* retry_count)
Config(name, command, description, auto_start, timeout, retry_count) ==
    [name |-> name, command |-> command, description |-> description,
     auto_start |-> auto_start, timeout |-> timeout,
     retry_count |-> retry_count]

\* to_dict: the members of the dictionary, as json.dump writes and
\* json.load reads them (strings, booleans, integers and lists of strings
\* come back as they went).
ToDict(c) ==
    << <<"name", c.name>>, <<"command", c.command>>,
       <<"description", c.description>>, <<"auto_start", c.auto_start>>,
       <<"timeout", c.timeout>>, <<"retry_count", c.retry_count>> >>

Member(d, key, default) ==
    IF \E k \in 1..Len(d) : d[k][1] = key
    THEN d[CHOOSE k \in 1..Len(d) : d[k][1] = key][2]
    ELSE default

\* from_dict: cls(**data), absent members taking the defaults of __init__.
FromDict(d) ==
    Config(Member(d, "name", ""), Member(d, "command", <<>>),
           Member(d, "description", ""), Member(d, "auto_start", TRUE),
           Member(d, "timeout", DefaultTimeout),
           Member(d, "retry_count", DefaultRetryCount))

\* save_config 175-180: one member per config, keyed by its name.
RECURSIVE SaveData(_, _)
SaveData(srv, todo) ==
    IF todo = {} THEN <<>>
    ELSE LET n == CHOOSE x \in todo : TRUE
         IN <<<<n, ToDict(srv[n])>>>> \o SaveData(srv, todo \ {n})

\* load_config 152-155 on the members of "servers".
RECURSIVE RegisterEach(_, _)
RegisterEach(srv, data) ==
    IF data = <<>> THEN srv
    ELSE LET c == FromDict(Head(data)[2])
         IN RegisterEach(Put(srv, c.name, c), Tail(data))

LoadConfig(file) ==
    IF file.exists THEN RegisterEach(EmptyMap, file.data) ELSE EmptyMap

DefaultServers ==
    << Config("filesystem",
              <<"npx", "-y", "@modelcontextprotocol/server-filesystem", "/tmp">>,
              "filesystem access", FALSE, DefaultTimeout, DefaultRetryCount),
       Config("github", <<"npx", "-y", "@modelcontextprotocol/server-github">>,
              "GitHub", FALSE, DefaultTimeout, DefaultRetryCount),
       Config("gdrive", <<"npx", "-y", "@modelcontextprotocol/server-gdrive">>,
              "Google Drive", FALSE, DefaultTimeout, DefaultRetryCount) >>

RECURSIVE LoadDefaultServers(_, _)
LoadDefaultServers(srv, defaults) ==
    IF defaults = <<>> THEN srv
    ELSE LoadDefaultServers(Put(srv, Head(defaults).name, Head(defaults)),
                            Tail(defaults))

\* MCPServerManager(config_file).servers
NewManager(file) == LoadDefaultServers(LoadConfig(file), DefaultServers)

\* --------------------------------------------------------------- Registry
Rename(p, name) == <<p>> \o name

GetToolServer(by, name) ==
    IF \E q \in DOMAIN by : \E k \in 1..Len(by[q]) : by[q][k] = name
    THEN CHOOSE q \in DOMAIN by : \E k \in 1..Len(by[q]) : by[q][k] = name
    ELSE ""

RegisteredName(tools, p, name) ==
    IF name \in DOMAIN tools THEN Rename(p, name) ELSE name

\* reg = [ads, tools, by]
RegisterMcpTool(reg, a, p) ==
    LET name == RegisteredName(reg.tools, p, reg.ads[a].name)
        old  == IF p \in DOMAIN reg.by THEN reg.by[p] ELSE <<>>
    IN  [ads   |-> [reg.ads EXCEPT ![a].name = name],
         tools |-> Put(reg.tools, name, a),
         by    |-> Put(reg.by, p, Append(old, name))]

RECURSIVE RegisterAll(_, _, _)
RegisterAll(reg, list, p) ==
    IF list = <<>> THEN reg
    ELSE RegisterAll(RegisterMcpTool(reg, Head(list), p), Tail(list), p)

\* create_dynamic_pydantic_model: the fields the model requires are the
\* required ones among those under "properties".
CreateDynamicModel(schema) == schema.properties \cap schema.required

\* MCPToolAdapter.__init__ 86-90: the dynamic model, or BaseModel, which
\* requires nothing, when building it raises.
ArgsSchema(schema) ==
    IF ~schema.objects /\ schema.properties # {}
    THEN {} ELSE CreateDynamicModel(schema)

\* The description in the schema of a declared tool: "search" comes with
\* one, any other tool with none and gets the default of
\* MCPToolAdapter.__init__ 63.
SchemaDescription(name) ==
    IF name = <<"search">> THEN <<"Find", "Files">> ELSE <<"MCP">>

\* Whether the tools/list request of client c ends in a result: the
\* process runs and answers it with one (answered), not with an error
\* object or a line that is no JSON.
ListSucceeds(objs, ps, c, answered) == IsAlive(objs, ps, c) /\ answered

\* MCPClient.list_tools as MCPServerToolCollection.load_tools sees it: the
\* cached list, else the provider's declaration, or [] when the request
\* fails.
ListTools(objs, ps, c, p, answered) ==
    IF Cached(objs, c) THEN objs[c].tools_cache.tools
    ELSE IF ListSucceeds(objs, ps, c, answered) THEN declared[p] ELSE <<>>

\* The client after that call: untouched on a cache hit; else the request
\* took an id, and a result filled the cache.
AfterListTools(objs, ps, c, p, answered) ==
    IF Cached(objs, c) THEN objs
    ELSE IF ListSucceeds(objs, ps, c, answered)
    THEN [NextId(objs, c) EXCEPT ![c].tools_cache = Cache(declared[p])]
    ELSE NextId(objs, c)

\* How often that call ran stdin.write.
ListWrites(objs, ps, c) ==
    IF Cached(objs, c) THEN 0 ELSE IF objs[c].process = 0 THEN 0 ELSE 1

\* MCPServerToolCollection.load_tools when the provider answers tools/list
\* as answered says: [colls, ads, objs, tools]
LoadToolsAnswered(colls, ads, objs, ps, p, answered) ==
    LET coll == colls[p] IN
    IF coll.loaded
    THEN [colls |-> colls, ads |-> ads, objs |-> objs, tools |-> coll.tools,
          writes |-> 0]
    ELSE LET schemas == ListTools(objs, ps, coll.client, p, answered)
             ids == [k \in 1..Len(schemas) |-> Len(ads) + k]
             made == [k \in 1..Len(schemas) |->
                         [client |-> coll.client, schema |-> schemas[k],
                          name |-> schemas[k],
                          description |-> SchemaDescription(schemas[k]),
                          input |-> inputSchema[p],
                          args_schema |-> ArgsSchema(inputSchema[p])]]
         IN  [colls |-> [colls EXCEPT ![p] =
                            [client |-> coll.client, loaded |-> TRUE,
                             tools |-> ids,
                             failed |-> IF Cached(objs, coll.client) THEN FALSE
                                        ELSE ~ListSucceeds(objs, ps, coll.client,
                                                           answered)]],
              ads   |-> ads \o made,
              objs  |-> AfterListTools(objs, ps, coll.client, p, answered),
              tools |-> ids,
              writes |-> ListWrites(objs, ps, coll.client)]

\* The same with a provider that answers tools/list with its declaration
\* whenever it runs.
LoadTools(colls, ads, objs, ps, p) ==
    LoadToolsAnswered(colls, ads, objs, ps, p, TRUE)

UnloadNames(tools, list) ==
    [k \in DOMAIN tools \ {list[i] : i \in 1..Len(list)} |-> tools[k]]

TotalTools(tools) == Cardinality(DOMAIN tools)

\* str.lower() on a text, a text being a sequence of pieces.
Lower(w) ==
    CASE w = "A" -> "a"
      [] w = "B" -> "b"
      [] w = "Find" -> "find"
      [] w = "Files" -> "files"
      [] w = "Search" -> "search"
      [] w = "MCP" -> "mcp"
      [] w = "Web" -> "web"
      [] w = "Adds" -> "adds"
      [] OTHER -> w

LowerAll(text) == [i \in 1..Len(text) |-> Lower(text[i])]

\* k in text
Contains(text, k) ==
    \E i \in 0..(Len(text) - Len(k)) : SubSeq(text, i + 1, i + Len(k)) = k

\* keyword_lower in tool.name.lower() or keyword_lower in
\* tool.description.lower()
Matches(name, description, keyword) ==
    IF Contains(LowerAll(name), LowerAll(keyword)) THEN TRUE
    ELSE Contains(LowerAll(description), LowerAll(keyword))

\* The keys of a dict, as a list.
RECURSIVE Keys(_)
Keys(K) ==
    IF K = {} THEN <<>>
    ELSE LET k == CHOOSE x \in K : TRUE IN <<k>> \o Keys(K \ {k})

\* MCPRegistry.get_all_tools: list(self._mcp_tools.values())
RegistryGetAllTools ==
    LET ks == Keys(DOMAIN mcp_tools)
    IN  [i \in 1..Len(ks) |-> mcp_tools[ks[i]]]

\* MCPRegistry.search_tools
RegistrySearchTools(keyword) ==
    LET Hit(a) == Matches(adapters[a].name, adapters[a].description, keyword)
    IN  SelectSeq(RegistryGetAllTools, Hit)

FirstLoads(seq) == [clean |-> TRUE, seq |-> seq]
Tainted == [clean |-> FALSE, seq |-> <<>>]
InSeq(seq, n) == \E k \in 1..Len(seq) : seq[k] = n

\* ------------------------------------------------------------------- Init
Configs == [retry_count : 0..MaxRetry, timeout : {0, DefaultTimeout}]

InitCommon ==
    /\ config_file = NoFile
    /\ langchain_tools = EmptyMap
    /\ tasks = <<>>
    /\ calls = <<>>
    /\ procs = <<>>
    /\ clientObjs = <<>>
    /\ clients = EmptyMap
    /\ tool_collections = EmptyMap
    /\ adapters = <<>>
    /\ mcp_tools = EmptyMap
    /\ mcp_tools_by_server = EmptyMap
    /\ loaded_servers = {}
    /\ loadOrder = FirstLoads(<<>>)
    /\ pc = "idle"
    /\ cur = NoCur
    /\ attempt = 0
    /\ tries = <<>>
    /\ ret = NoRet

\* ---------------------------------------------------------------- returns
StartRet(n, ok) == [NoRet EXCEPT !.op = "start_server", !.name = n, !.ok = ok]
LoadRet(n, list) ==
    [NoRet EXCEPT !.op = "load_server_tools", !.name = n, !.tools = list,
                  !.count = Len(list)]

\* The rest of load_server_tools once the provider runs (lines 52-70), on
\* the supervisor state objs/ps/colls the call has reached.
LoadFinish(n, objs, ps, colls) ==
    LET L == LoadTools(colls, adapters, objs, ps, n)
        R == RegisterAll([ads |-> L.ads, tools |-> mcp_tools,
                          by |-> mcp_tools_by_server], L.tools, n)
    IN  /\ \A k \in DOMAIN R.tools : Len(k) <= MaxNameLen
        /\ tool_collections' = L.colls
        /\ clientObjs' = L.objs
        /\ adapters' = R.ads
        /\ mcp_tools' = R.tools
        /\ mcp_tools_by_server' = R.by
        /\ loaded_servers' = loaded_servers \cup {n}
        /\ loadOrder' = IF /\ loadOrder.clean
                            /\ ~InSeq(loadOrder.seq, n)
                            /\ Len(L.tools) = Len(declared[n])
                         THEN FirstLoads(Append(loadOrder.seq, n))
                         ELSE Tainted
        /\ ret' = LoadRet(n, L.tools)

\* load_all_tools and reload_tools call start_server from the loop of
\* start_all_auto_servers.
Bulk == {"load_all_tools", "reload_tools", "start_all_auto_servers"}

\* start_all_auto_servers 302-305: results once start_server(n) returned
\* ok; its callers in the registry drop them.
Results(caller, n, ok) ==
    IF caller = "start_all_auto_servers" THEN Put(cur.results, n, ok)
    ELSE EmptyMap

\* What that loop has yet to visit once the current start_server returns.
Remaining == IF pc = "auto" THEN Tail(cur.todo) ELSE cur.todo

\* start_server returns ok to its caller, leaving objs/ps/cl/colls.
Return(n, caller, ok, objs, ps, cl, colls) ==
    /\ pc' = IF caller \in Bulk THEN "auto" ELSE "idle"
    /\ cur' = IF caller \in Bulk
              THEN [NoCur EXCEPT !.caller = caller, !.todo = Remaining,
                                 !.results = Results(caller, n, ok)]
              ELSE NoCur
    /\ procs' = ps
    /\ clients' = cl
    /\ UNCHANGED <<servers, config_file, declared, inputSchema, handshakes, langchain_tools, tasks, calls>>
    /\ IF caller = "load_server_tools" /\ ok
       THEN LoadFinish(n, objs, ps, colls)
       ELSE /\ clientObjs' = objs
            /\ tool_collections' = colls
            /\ UNCHANGED regVars
            /\ ret' = IF caller = "load_server_tools"
                      THEN LoadRet(n, <<>>)
                      ELSE IF caller \in Bulk THEN StartRet(n, ok)
                      ELSE [StartRet(n, ok) EXCEPT !.op = caller]

\* No start_server call is running or has just returned.
Forget ==
    /\ pc' = "idle"
    /\ cur' = NoCur
    /\ attempt' = 0
    /\ tries' = <<>>

\* ---------------------------------------------------- start_server steps
\* One iteration: whether client.start() ran, and how it ended.
NewTry(started, result) == [started |-> started, result |-> result]

\* One iteration of the retry loop ended without success (lines 239-249).
AttemptFailed(objs, ps, tr) ==
    /\ attempt' = attempt + 1
    /\ tries' = tr
    /\ IF attempt + 1 < servers[cur.name].retry_count
       THEN /\ pc' = "attempt"
            /\ clientObjs' = objs
            /\ procs' = ps
            /\ UNCHANGED <<servers, config_file, declared, inputSchema, handshakes, langchain_tools, tasks, calls, clients, tool_collections, cur>>
            /\ UNCHANGED regVars
            /\ ret' = NoRet
       ELSE Return(cur.name, cur.caller, FALSE, objs, ps, clients,
                   tool_collections)

\* start_server lines 206-224, for the caller named, on the supervisor
\* state objs0/ps0/cl0/colls0.
BeginStartFrom(n, caller, objs0, ps0, cl0, colls0) ==
    IF n \notin DOMAIN servers
    THEN /\ attempt' = 0
         /\ tries' = <<>>
         /\ Return(n, caller, FALSE, objs0, ps0, cl0, colls0)
    ELSE IF n \in DOMAIN cl0 /\ IsAlive(objs0, ps0, cl0[n])
    THEN /\ attempt' = 0
         /\ tries' = <<>>
         /\ Return(n, caller, TRUE, objs0, ps0, cl0, colls0)
    ELSE /\ Len(objs0) < MaxClients
         /\ Len(ps0) + servers[n].retry_count <= MaxProcs
         /\ LET objs == Append(objs0,
                           [server_name |-> n, process |-> 0, request_id |-> 0,
                            tools_cache |-> NoCache, eof |-> FALSE,
                            served |-> FALSE])
            IN IF servers[n].retry_count = 0
               THEN /\ attempt' = 0
                    /\ tries' = <<>>
                    /\ Return(n, caller, FALSE, objs, ps0, cl0, colls0)
               ELSE /\ clientObjs' = objs
                    /\ procs' = ps0
                    /\ clients' = cl0
                    /\ tool_collections' = colls0
                    /\ cur' = [NoCur EXCEPT !.name = n, !.client = Len(objs),
                                            !.caller = caller,
                                            !.results = cur.results,
                                            !.todo = IF caller \in Bulk
                                                     THEN Remaining ELSE <<>>]
                    /\ attempt' = 0
                    /\ tries' = <<>>
                    /\ pc' = "attempt"
                    /\ ret' = NoRet
                    /\ UNCHANGED <<servers, config_file, declared, inputSchema, handshakes, langchain_tools, tasks, calls>>
                    /\ UNCHANGED regVars

BeginStart(n, caller) ==
    BeginStartFrom(n, caller, clientObjs, procs, clients, tool_collections)

StartServer(n) ==
    /\ pc = "idle"
    /\ BeginStart(n, "start_server")

\* wait_for(client.start(), timeout) up to the initialize request being
\* written (start_server 226-229, MCPClient.start 39-65, _send_request
\* 99-106); with timeout <= 0 wait_for cancels start() before it runs and
\* the handler at 239-242 stops the client.
Attempt ==
    /\ pc = "attempt"
    /\ LET c == cur.client IN
       IF servers[cur.name].timeout <= 0
       THEN AttemptFailed(StopObjs(clientObjs, c), StopProcs(clientObjs, procs, c),
                          Append(tries, NewTry(FALSE, "timeout")))
       ELSE \E launch \in handshakes[cur.name] \cup {"popen_fails"} :
            IF launch = "popen_fails"
            THEN AttemptFailed(clientObjs, procs,
                               Append(tries, NewTry(TRUE, "popen_fails")))
            ELSE /\ procs' = Append(procs,
                               [client |-> c, kind |-> launch, alive |-> TRUE,
                                out |-> TRUE, failed |-> FALSE,
                                awaiting |-> <<clientObjs[c].request_id + 1>>])
                 /\ clientObjs' = NextId([clientObjs EXCEPT
                                             ![c].process = Len(procs) + 1], c)
                 /\ tries' = Append(tries, NewTry(TRUE, "pending"))
                 /\ pc' = "read"
                 /\ ret' = NoRet
                 /\ UNCHANGED <<servers, config_file, declared, inputSchema, handshakes, langchain_tools, tasks, calls, clients, tool_collections,
                                cur, attempt>>
                 /\ UNCHANGED regVars

\* The attempt's readline and what follows it (_send_request 109-119,
\* MCPClient.start 67-72, start_server 230-238).
StartSucceededUnchecked(line) == line # "eof"

StartSucceeded(line) == line = "ok"

Read ==
    /\ pc = "read"
    /\ LET c == cur.client
           i == clientObjs[c].process
       IN \E line \in ReadableLines(procs[i]) :
            LET tr == [tries EXCEPT ![Len(tries)].result = line] IN
            IF StartSucceeded(line)
            THEN /\ attempt' = attempt
                 /\ tries' = tr
                 /\ Return(cur.name, cur.caller, TRUE, clientObjs,
                           Received(procs, i), Put(clients, cur.name, c),
                           Put(tool_collections, cur.name, NewCollection(c)))
            ELSE AttemptFailed(clientObjs,
                               [Received(procs, i) EXCEPT ![i].failed = TRUE],
                               tr)

\* stop_server (255-279) with MCPClient.stop (74-87).
StopServer(n) ==
    /\ pc = "idle"
    /\ IF n \notin DOMAIN clients
       THEN UNCHANGED <<procs, clientObjs, clients, tool_collections>>
       ELSE /\ procs' = StopProcs(clientObjs, procs, clients[n])
            /\ clientObjs' = StopObjs(clientObjs, clients[n])
            /\ clients' = Drop(clients, n)
            /\ tool_collections' = Drop(tool_collections, n)
    /\ ret' = [NoRet EXCEPT !.op = "stop_server", !.name = n, !.ok = TRUE]
    /\ UNCHANGED <<servers, config_file, declared, inputSchema, handshakes, langchain_tools, tasks, calls>>
    /\ UNCHANGED regVars
    /\ Forget

\* restart_server (291-292): stop_server, then start_server.
RestartServer(n) ==
    /\ pc = "idle"
    /\ IF n \in DOMAIN clients
       THEN BeginStartFrom(n, "restart_server",
                           StopObjs(clientObjs, clients[n]),
                           StopProcs(clientObjs, procs, clients[n]),
                           Drop(clients, n), Drop(tool_collections, n))
       ELSE BeginStart(n, "restart_server")

\* register_server
RegisterServer(c) ==
    /\ pc = "idle"
    /\ servers' = Put(servers, c.name, c)
    /\ ret' = [NoRet EXCEPT !.op = "register_server", !.name = c.name]
    /\ UNCHANGED <<config_file, declared, inputSchema, handshakes, langchain_tools, tasks, calls, procs,
                   clientObjs, clients, tool_collections>>
    /\ UNCHANGED regVars
    /\ Forget

\* unregister_server: the config goes first; for a provider that has a
\* client, create_task then schedules stop_server on the running event
\* loop, or raises RuntimeError when no loop runs.
UnregisterServer(n) ==
    /\ pc = "idle"
    /\ servers' = Drop(servers, n)
    /\ IF n \in DOMAIN servers /\ n \in DOMAIN clients
       THEN \E loop \in BOOLEAN :
              /\ tasks' = IF loop THEN Append(tasks, n) ELSE tasks
              /\ ret' = [NoRet EXCEPT !.op = "unregister_server", !.name = n,
                                      !.raised = IF loop THEN "none"
                                                 ELSE "RuntimeError"]
       ELSE /\ UNCHANGED tasks
            /\ ret' = [NoRet EXCEPT !.op = "unregister_server", !.name = n]
    /\ UNCHANGED <<config_file, declared, inputSchema, handshakes,
                   langchain_tools, calls, procs, clientObjs, clients,
                   tool_collections>>
    /\ UNCHANGED regVars
    /\ Forget

\* The event loop runs the oldest stop_server task unregister_server
\* created; no coroutine of the supervisor has a suspension point, so it
\* runs between two calls.
RunTask ==
    /\ pc = "idle"
    /\ tasks # <<>>
    /\ LET n == Head(tasks) IN
       IF n \notin DOMAIN clients
       THEN UNCHANGED <<procs, clientObjs, clients, tool_collections>>
       ELSE /\ procs' = StopProcs(clientObjs, procs, clients[n])
            /\ clientObjs' = StopObjs(clientObjs, clients[n])
            /\ clients' = Drop(clients, n)
            /\ tool_collections' = Drop(tool_collections, n)
    /\ tasks' = Tail(tasks)
    /\ ret' = [NoRet EXCEPT !.op = "stop_server_task", !.name = Head(tasks),
                            !.ok = TRUE]
    /\ UNCHANGED <<servers, config_file, declared, inputSchema, handshakes,
                   langchain_tools, calls>>
    /\ UNCHANGED regVars
    /\ Forget

\* stop_server on every name of todo, in turn: [objs, ps]
RECURSIVE StopEach(_, _, _)
StopEach(objs, ps, todo) ==
    IF todo = {} THEN [objs |-> objs, ps |-> ps]
    ELSE LET c == CHOOSE x \in todo : TRUE
         IN StopEach(StopObjs(objs, c), StopProcs(objs, ps, c), todo \ {c})

\* for name in list(self.clients.keys())
StopAllNames == DOMAIN clients

\* stop_all_servers, returning as op.
StopAll(op) ==
    /\ pc = "idle"
    /\ LET S == StopEach(clientObjs, procs, {clients[n] : n \in StopAllNames})
       IN  /\ clientObjs' = S.objs
           /\ procs' = S.ps
    /\ clients' = [n \in DOMAIN clients \ StopAllNames |-> clients[n]]
    /\ tool_collections' = [n \in DOMAIN tool_collections \ StopAllNames |->
                               tool_collections[n]]
    /\ ret' = [NoRet EXCEPT !.op = op,
                            !.results = [n \in StopAllNames |-> TRUE]]
    /\ UNCHANGED <<servers, config_file, declared, inputSchema, handshakes,
                   langchain_tools, tasks, calls>>
    /\ UNCHANGED regVars
    /\ Forget

StopAllServers == StopAll("stop_all_servers")

\* MCPServerManager.cleanup: await self.stop_all_servers()
Cleanup == StopAll("manager_cleanup")

\* get_server_stats 373-379: self.clients[name] for every config.
StatsKeyError == DOMAIN servers \ DOMAIN clients # {}

\* len(collection.get_tools()) of the collection of n
ToolsCount(n) ==
    IF n \in DOMAIN tool_collections THEN Len(tool_collections[n].tools)
    ELSE 0

RECURSIVE TotalToolsCount(_)
TotalToolsCount(todo) ==
    IF todo = {} THEN 0
    ELSE LET n == CHOOSE x \in todo : TRUE
         IN ToolsCount(n) + TotalToolsCount(todo \ {n})

\* get_server_stats
ServerStats ==
    LET total_servers == Cardinality(DOMAIN servers)
        running_servers ==
            Cardinality({n \in DOMAIN clients :
                            IsAlive(clientObjs, procs, clients[n])})
    IN  [total_servers |-> total_servers,
         running_servers |-> running_servers,
         stopped_servers |-> total_servers - running_servers,
         total_tools |-> TotalToolsCount(DOMAIN tool_collections),
         servers |-> [n \in DOMAIN servers |->
                        [status |-> Status(clientObjs, procs, clients, n),
                         tools_count |-> ToolsCount(n)]]]

GetServerStats ==
    /\ pc = "idle"
    /\ ret' = IF StatsKeyError
              THEN [NoRet EXCEPT !.op = "get_server_stats",
                                 !.raised = "KeyError"]
              ELSE [NoRet EXCEPT !.op = "get_server_stats",
                                 !.stats = ServerStats]
    /\ UNCHANGED supVars
    /\ UNCHANGED regVars
    /\ Forget

ReplaceConfig(srv, file) ==
    IF file.exists THEN RegisterEach(EmptyMap, file.data) ELSE srv

\* load_config on a manager that holds srv: nothing for a missing file,
\* else register_server for every member of "servers".
MergeConfig(srv, file) ==
    IF file.exists THEN RegisterEach(srv, file.data) ELSE srv

\* load_config(config_file) on the running manager.
LoadConfigFile ==
    /\ pc = "idle"
    /\ servers' = MergeConfig(servers, config_file)
    /\ ret' = [NoRet EXCEPT !.op = "load_config"]
    /\ UNCHANGED <<config_file, declared, inputSchema, handshakes,
                   langchain_tools, tasks, calls, procs, clientObjs, clients,
                   tool_collections>>
    /\ UNCHANGED regVars
    /\ Forget

SaveConfig ==
    /\ pc = "idle"
    /\ config_file' = [exists |-> TRUE,
                       data |-> SaveData(servers, DOMAIN servers),
                       saved |-> servers]
    /\ ret' = [NoRet EXCEPT !.op = "save_config"]
    /\ UNCHANGED <<servers, declared, inputSchema, handshakes, langchain_tools, tasks, calls, procs,
                   clientObjs, clients, tool_collections>>
    /\ UNCHANGED regVars
    /\ Forget

\* The program starts again: MCPServerManager(config_file).
Construct ==
    /\ pc = "idle"
    /\ clients = EmptyMap
    /\ servers' = NewManager(config_file)
    /\ ret' = [NoRet EXCEPT !.op = "construct"]
    /\ UNCHANGED <<config_file, declared, inputSchema, handshakes, langchain_tools, tasks, calls, procs,
                   clientObjs, clients, tool_collections>>
    /\ UNCHANGED regVars
    /\ Forget

\* A provider process exits on its own.
ProcExit(i) ==
    /\ procs[i].alive
    /\ procs' = Terminate(procs, i)
    /\ ret' = NoRet
    /\ UNCHANGED <<servers, config_file, declared, inputSchema, handshakes, langchain_tools, tasks, calls, clientObjs, clients, tool_collections>>
    /\ UNCHANGED regVars
    /\ IF pc = "idle" THEN Forget ELSE UNCHANGED ctlVars

\* -------------------------------------------------------- registry steps
LoadServerTools(n) ==
    /\ pc = "idle"
    /\ IF n \in DOMAIN clients /\ IsAlive(clientObjs, procs, clients[n])
       THEN /\ LoadFinish(n, clientObjs, procs, tool_collections)
            /\ UNCHANGED <<servers, config_file, declared, inputSchema, handshakes, langchain_tools, tasks, calls, procs, clients>>
            /\ Forget
       ELSE BeginStart(n, "load_server_tools")

UnloadServerTools(n) ==
    /\ pc = "idle"
    /\ IF n \notin DOMAIN mcp_tools_by_server
       THEN /\ UNCHANGED <<adapters, mcp_tools, mcp_tools_by_server,
                            loaded_servers>>
            /\ ret' = [NoRet EXCEPT !.op = "unload_server_tools", !.name = n]
       ELSE /\ mcp_tools' = UnloadNames(mcp_tools, mcp_tools_by_server[n])
            /\ mcp_tools_by_server' = Drop(mcp_tools_by_server, n)
            /\ loaded_servers' = loaded_servers \ {n}
            /\ UNCHANGED adapters
            /\ ret' = [NoRet EXCEPT !.op = "unload_server_tools", !.name = n,
                                    !.count = Len(mcp_tools_by_server[n])]
    /\ loadOrder' = Tainted
    /\ UNCHANGED supVars
    /\ Forget

RECURSIVE UnloadEach(_, _, _)
UnloadEach(tools, by, todo) ==
    IF todo = {} THEN tools
    ELSE LET q == CHOOSE x \in todo : TRUE
         IN UnloadEach(UnloadNames(tools, by[q]), by, todo \ {q})

UnloadAllToolsAndStop ==
    /\ pc = "idle"
    /\ mcp_tools' = EmptyMap
    /\ mcp_tools_by_server' = EmptyMap
    /\ loaded_servers' = {}
    /\ UNCHANGED adapters
    /\ loadOrder' = Tainted
    /\ ret' = [NoRet EXCEPT !.op = "unload_all_tools"]
    /\ procs' = [i \in 1..Len(procs) |-> [procs[i] EXCEPT !.alive = FALSE]]
    /\ clients' = EmptyMap
    /\ tool_collections' = EmptyMap
    /\ UNCHANGED <<servers, config_file, declared, inputSchema, handshakes, langchain_tools, tasks, calls, clientObjs>>
    /\ Forget

UnloadAllTools ==
    /\ pc = "idle"
    /\ mcp_tools' = UnloadEach(mcp_tools, mcp_tools_by_server,
                               DOMAIN mcp_tools_by_server)
    /\ mcp_tools_by_server' = EmptyMap
    /\ loaded_servers' = loaded_servers \ DOMAIN mcp_tools_by_server
    /\ UNCHANGED adapters
    /\ loadOrder' = Tainted
    /\ ret' = [NoRet EXCEPT !.op = "unload_all_tools"]
    /\ UNCHANGED supVars
    /\ Forget

\* start_all_auto_servers 303-305: the names it visits, in the order of
\* the dict.
RECURSIVE AutoNames(_)
AutoNames(order) ==
    IF order = <<>> THEN <<>>
    ELSE IF Head(order) \in DOMAIN servers /\ servers[Head(order)].auto_start
    THEN <<Head(order)>> \o AutoNames(Tail(order))
    ELSE AutoNames(Tail(order))

ServerOrder == <<"A", "B">>

\* list_servers: one dict per config, here its name and status.
ListServers ==
    [k \in 1..Len(ServerOrder) |->
        <<"dict", ServerOrder[k],
          Status(clientObjs, procs, clients, ServerOrder[k])>>]

\* load_all_tools 162-166: server_name is an item of list_servers(), and
\* server_info the first item s with s['name'] == server_name; a str never
\* equals a dict.
ServerInfos(server_name) ==
    {k \in 1..Len(ListServers) : <<"str", ListServers[k][2]>> = server_name}

\* The items the loop loads tools for: those with a server_info that is
\* running.
Loadable ==
    {j \in 1..Len(ListServers) :
        \E k \in ServerInfos(ListServers[j]) : ListServers[k][3] = "running"}

\* load_all_tools up to the first start_server of start_all_auto_servers.
LoadAllTools ==
    /\ pc = "idle"
    /\ pc' = "auto"
    /\ cur' = [NoCur EXCEPT !.caller = "load_all_tools",
                            !.todo = AutoNames(ServerOrder)]
    /\ attempt' = 0
    /\ tries' = <<>>
    /\ ret' = NoRet
    /\ UNCHANGED supVars
    /\ UNCHANGED regVars

\* The launches start_server may make for the names of todo.
RECURSIVE Launches(_)
Launches(todo) ==
    IF todo = <<>> THEN 0
    ELSE servers[Head(todo)].retry_count + Launches(Tail(todo))

\* start_all_auto_servers up to its first start_server.
StartAllAutoServers ==
    /\ pc = "idle"
    /\ Len(clientObjs) + Len(AutoNames(ServerOrder)) <= MaxClients
    /\ Len(procs) + Launches(AutoNames(ServerOrder)) <= MaxProcs
    /\ pc' = "auto"
    /\ cur' = [NoCur EXCEPT !.caller = "start_all_auto_servers",
                            !.todo = AutoNames(ServerOrder)]
    /\ attempt' = 0
    /\ tries' = <<>>
    /\ ret' = NoRet
    /\ UNCHANGED supVars
    /\ UNCHANGED regVars

\* reload_tools: unload_all_tools, then load_all_tools.
ReloadTools ==
    /\ pc = "idle"
    /\ mcp_tools' = UnloadEach(mcp_tools, mcp_tools_by_server,
                               DOMAIN mcp_tools_by_server)
    /\ mcp_tools_by_server' = EmptyMap
    /\ loaded_servers' = loaded_servers \ DOMAIN mcp_tools_by_server
    /\ UNCHANGED adapters
    /\ loadOrder' = Tainted
    /\ pc' = "auto"
    /\ cur' = [NoCur EXCEPT !.caller = "reload_tools",
                            !.todo = AutoNames(ServerOrder)]
    /\ attempt' = 0
    /\ tries' = <<>>
    /\ ret' = NoRet
    /\ UNCHANGED supVars

\* The next iteration of start_all_auto_servers, or, after the last, the
\* loop of load_all_tools over list_servers() and its return.
NextAuto ==
    /\ pc = "auto"
    /\ IF cur.todo # <<>>
       THEN BeginStart(Head(cur.todo), cur.caller)
       ELSE /\ ret' = IF cur.caller = "start_all_auto_servers"
                      THEN [NoRet EXCEPT !.op = cur.caller,
                                         !.results = cur.results]
                      ELSE [NoRet EXCEPT
                               !.op = cur.caller,
                               !.loaded = [j \in Loadable |->
                                              Len(declared[ListServers[j][2]])]]
            /\ UNCHANGED supVars
            /\ UNCHANGED regVars
            /\ Forget

\* ------------------------------------------------- requests on a client
\* A line of a provider's stdout: end of file, a line json.loads rejects, a
\* response with an error object, one with neither result nor error, or a
\* result whose "content" is a list of blocks ("image" has no text), one
\* block, a string, or missing.
Line(tag, shape, blocks) == [tag |-> tag, shape |-> shape, blocks |-> blocks]
NoLine == Line("none", "", <<>>)
Eof == Line("eof", "", <<>>)
\* A line with an error object, whose content is "denied".
ErrorObject == Line("error", "", <<"denied">>)
ErrorLines == {Line("garbage", "", <<>>), ErrorObject,
               Line("no_result", "", <<>>)}
ResultLines == {Line("result", "list", <<"pong", "image", "more">>),
                Line("result", "list", <<>>),
                Line("result", "dict", <<"pong">>),
                Line("result", "str", <<"pong">>),
                Line("result", "number", <<"42">>),
                Line("result", "absent", <<>>)}

\* What provider p answers to a request: anything to a call of a tool it
\* declared, an error object to a call of any other.
Answers(p, req) ==
    IF req.method = "tools/call"
           /\ \A k \in 1..Len(declared[p]) : declared[p][k] # req.name
    THEN {ErrorObject}
    ELSE ErrorLines \cup ResultLines

\* readline() on process p after req was written to it.
CallLines(p, req) ==
    (IF p.out THEN Answers(clientObjs[p.client].server_name, req) ELSE {})
        \cup (IF p.alive /\ p.out THEN {} ELSE {Eof})

\* A line without "result" passes for a result.
CauseLenient(line) ==
    CASE line.tag = "eof" -> "no_response"
      [] line.tag = "garbage" -> "malformed"
      [] line.tag = "error" -> "provider_error"
      [] OTHER -> ""

\* The exception _send_request or call_tool raises on a line.
Cause(line) ==
    CASE line.tag = "eof" -> "no_response"
      [] line.tag = "garbage" -> "malformed"
      [] line.tag = "error" -> "provider_error"
      [] line.tag = "no_result" -> "invalid_response"
      [] OTHER -> ""

ErrorType(cause) ==
    CASE cause \in {"not_running", "no_response"} -> "ConnectionError"
      [] cause = "broken_pipe" -> "BrokenPipeError"
      [] cause = "malformed" -> "JSONDecodeError"
      [] cause = "" -> "none"
      [] OTHER -> "Exception"

RECURSIVE TextParts(_)
TextParts(blocks) ==
    IF blocks = <<>> THEN <<>>
    ELSE IF Head(blocks) = "image" THEN TextParts(Tail(blocks))
    ELSE <<Head(blocks)>> \o TextParts(Tail(blocks))

\* _arun 139-155: the text parts of a list that is not empty, joined by
\* newlines; the text of a block; a string as it is; the standing sentence
\* for every other content (none, an empty list, a block without text, a
\* value that is no string).
Normalize(line) ==
    IF line.shape = "list" /\ line.blocks # <<>>
    THEN [NoText EXCEPT !.kind = "result", !.parts = TextParts(line.blocks)]
    ELSE IF line.shape = "dict" /\ TextParts(line.blocks) # <<>>
    THEN [NoText EXCEPT !.kind = "result", !.parts = TextParts(line.blocks)]
    ELSE IF line.shape = "str"
    THEN [NoText EXCEPT !.kind = "result", !.parts = line.blocks]
    ELSE [NoText EXCEPT !.kind = "no_content"]

\* The message of the exception call_tool and get_resource let through:
\* f"MCP服务器错误: {response['error']}" carries the content of the error
\* object (_send_request 116-117); "无效的MCP工具响应" and the others
\* carry nothing of the line.
Raised(cause, line) ==
    [NoText EXCEPT !.kind = "raised", !.cause = cause,
                   !.parts = IF cause = "provider_error" THEN line.blocks
                             ELSE <<>>]

\* _arun 157-160
Failure(tool, cause) ==
    [NoText EXCEPT !.kind = "failure", !.tool = tool, !.cause = cause]

\* The call described by loc returns to its caller: an adapter turns every
\* exception into a text (_arun 157-160), list_tools into [] (153-155),
\* call_tool and get_resource raise it again (188-190, 217-219).
CallRet(loc, writes, requests, line, cause, answers) ==
    LET r == [NoRet EXCEPT !.op = loc.caller, !.name = loc.name,
                           !.adapter = loc.adapter, !.key = loc.key,
                           !.args = loc.args, !.client = loc.client,
                           !.called = TRUE, !.writes = writes,
                           !.requests = requests, !.line = line,
                           !.answers = answers, !.ok = (cause = ""),
                           !.alive = loc.alive]
    IN  IF loc.caller = "invoke"
        THEN [r EXCEPT !.text = IF cause = "" THEN Normalize(line)
                                ELSE Failure(adapters[loc.adapter].name, cause)]
        ELSE IF loc.caller = "list_tools"
        THEN [r EXCEPT !.schemas = IF cause = "" THEN declared[loc.name]
                                   ELSE <<>>]
        ELSE [r EXCEPT !.raised = ErrorType(cause),
                       !.text = IF cause = "" THEN NoText
                                ELSE Raised(cause, line)]

\* A call on a client ends, leaving the clients objs and the processes ps.
EndCall(objs, ps, r) ==
    /\ clientObjs' = objs
    /\ procs' = ps
    /\ ret' = r
    /\ UNCHANGED <<servers, config_file, declared, inputSchema, handshakes, langchain_tools, tasks, calls, clients, tool_collections>>
    /\ UNCHANGED regVars
    /\ Forget

\* The request is built (_next_id) and _send_request runs up to its
\* readline (99-106): no process handle, a write that raises because the
\* process has exited, or the request in the pipe.
SendRequest(loc) ==
    LET c == loc.client
        i == clientObjs[c].process
        id == clientObjs[c].request_id + 1
        req == [loc.request EXCEPT !.id = id]
        objs == NextId(clientObjs, c)
    IN  /\ id <= MaxRequestId
        /\ IF i = 0
           THEN EndCall(objs, procs,
                        CallRet(loc, 0, <<>>, NoLine, "not_running", 0))
           ELSE IF ~procs[i].alive
           THEN EndCall(objs, procs,
                        CallRet(loc, 1, <<>>, NoLine, "broken_pipe", 0))
           ELSE /\ clientObjs' = objs
                /\ procs' = Written(procs, i, id)
                /\ cur' = [loc EXCEPT !.request = req]
                /\ pc' = "call_read"
                /\ ret' = NoRet
                /\ UNCHANGED <<servers, config_file, declared, inputSchema, handshakes, langchain_tools, tasks, calls, clients,
                               tool_collections, attempt, tries>>
                /\ UNCHANGED regVars

\* Whether the process of client c runs: it was launched, the handle is
\* held, and it has not exited.
ProcessRuns(c) ==
    IF clientObjs[c].process = 0 THEN FALSE
    ELSE procs[clientObjs[c].process].alive

\* BaseTool validates the input against args_schema and raises before
\* _arun is entered.
Validates(model, args) == model \subseteq DOMAIN args

\* No coroutine is between two suspension points: _send_request has no
\* await between its write and the end of its readline.
SchedulableMidRequest == pc \in {"idle", "call_read"}

Schedulable == pc = "idle"

\* get_tool(k) and the adapter's invoke with args, up to the readline of
\* _send_request (registry 193-203, adapter 128-137, client 168-176).
Invoke(k, args) ==
    /\ Schedulable
    /\ k \in DOMAIN mcp_tools
    /\ LET a == mcp_tools[k]
           c == adapters[a].client
           loc == [NoCur EXCEPT !.name = clientObjs[c].server_name,
                                !.client = c, !.caller = "invoke",
                                !.adapter = a, !.key = k, !.args = args,
                                !.alive = ProcessRuns(c),
                                !.request = [NoRequest EXCEPT
                                                !.method = "tools/call",
                                                !.name = adapters[a].name,
                                                !.arguments = args]]
           r == [NoRet EXCEPT !.op = "invoke", !.name = loc.name,
                              !.adapter = a, !.key = k, !.args = args,
                              !.client = c, !.alive = ProcessRuns(c)]
       IN IF ~Validates(adapters[a].args_schema, args)
          THEN EndCall(clientObjs, procs,
                       [r EXCEPT !.raised = "ValidationError"])
          ELSE IF ~IsAlive(clientObjs, procs, c)
          THEN EndCall(clientObjs, procs,
                       [r EXCEPT !.text = Failure(adapters[a].name,
                                                  "not_connected")])
          ELSE SendRequest(loc)

\* call_tool, list_tools or get_resource on the client the supervisor
\* holds for n (get_client), up to the readline of _send_request; a
\* list_tools that finds the cache returns it at once.
ClientCall(n, method, toolName, args) ==
    /\ Schedulable
    /\ n \in DOMAIN clients
    /\ IF method = "tools/list" /\ Cached(clientObjs, clients[n])
       THEN EndCall(clientObjs, procs,
                    [NoRet EXCEPT
                        !.op = "list_tools", !.name = n,
                        !.client = clients[n], !.called = TRUE, !.ok = TRUE,
                        !.alive = ProcessRuns(clients[n]),
                        !.schemas = clientObjs[clients[n]].tools_cache.tools])
       ELSE SendRequest([NoCur EXCEPT
          !.name = n, !.client = clients[n],
          !.alive = ProcessRuns(clients[n]),
          !.caller = CASE method = "tools/call" -> "call_tool"
                       [] method = "tools/list" -> "list_tools"
                       [] OTHER -> "get_resource",
          !.request = [NoRequest EXCEPT
                          !.method = method,
                          !.name = IF method = "tools/call"
                                   THEN toolName ELSE <<>>,
                          !.arguments = IF method = "tools/call"
                                        THEN args ELSE EmptyMap]])

\* The readline of _send_request and the rest of the call (109-119).
CallRead ==
    /\ pc = "call_read"
    /\ LET c == cur.client
           i == clientObjs[c].process
       IN \E line \in CallLines(procs[i], cur.request) :
            EndCall(IF line = Eof /\ cur.request.method = "tools/call"
                    THEN [clientObjs EXCEPT ![c].eof = TRUE]
                    ELSE IF line.tag = "result" /\ cur.caller = "invoke"
                    THEN [clientObjs EXCEPT ![c].served = TRUE]
                    ELSE IF line.tag = "result" /\ cur.caller = "list_tools"
                    THEN [clientObjs EXCEPT
                             ![c].tools_cache = Cache(declared[cur.name])]
                    ELSE clientObjs,
                    Received(procs, i),
                    CallRet(cur, 1, <<cur.request>>, line, Cause(line),
                            Head(procs[i].awaiting)))

\* A provider process closes its stdout, as every process does on its way
\* out before it can be reaped.
ProcCloseStdout(i) ==
    /\ procs[i].alive
    /\ procs[i].out
    /\ procs' = [procs EXCEPT ![i].out = FALSE]
    /\ ret' = NoRet
    /\ UNCHANGED <<servers, config_file, declared, inputSchema, handshakes, langchain_tools, tasks, calls, clientObjs, clients,
                   tool_collections>>
    /\ UNCHANGED regVars
    /\ IF pc = "idle" THEN Forget ELSE UNCHANGED ctlVars

\* ------------------------------------------- MCPServerToolCollection
\* get_tool_collection(n).load_tools()
CollectionLoadTools(n) ==
    /\ pc = "idle"
    /\ n \in DOMAIN tool_collections
    /\ \E answered \in BOOLEAN :
       LET L == LoadToolsAnswered(tool_collections, adapters, clientObjs,
                                  procs, n, answered)
           c == tool_collections[n].client
       IN  /\ Len(L.ads) <= MaxAdapters
           /\ L.objs[c].request_id <= MaxRequestId
           /\ tool_collections' = L.colls
           /\ adapters' = L.ads
           /\ clientObjs' = L.objs
           /\ ret' = [NoRet EXCEPT !.op = "load_tools", !.name = n,
                                   !.client = c, !.tools = L.tools,
                                   !.count = Len(L.tools),
                                   !.writes = L.writes,
                                   !.alive = ProcessRuns(c)]
    /\ UNCHANGED <<servers, config_file, declared, inputSchema, handshakes,
                   langchain_tools, tasks, calls, procs, clients>>
    /\ UNCHANGED <<mcp_tools, mcp_tools_by_server, loaded_servers, loadOrder>>
    /\ Forget

\* get_tool_collection(n).reload_tools()
CollectionReloadTools(n) ==
    /\ pc = "idle"
    /\ n \in DOMAIN tool_collections
    /\ tool_collections' = [tool_collections EXCEPT
                               ![n] = NewCollection(tool_collections[n].client)]
    /\ ret' = [NoRet EXCEPT !.op = "collection_reload_tools", !.name = n,
                            !.client = tool_collections[n].client]
    /\ UNCHANGED <<servers, config_file, declared, inputSchema, handshakes,
                   langchain_tools, tasks, calls, procs, clientObjs, clients>>
    /\ UNCHANGED regVars
    /\ Forget

\* Provider p answers tools/list with another list from now on.
Redeclare(p, list) ==
    /\ declared[p] # list
    /\ declared' = [declared EXCEPT ![p] = list]
    /\ ret' = NoRet
    /\ UNCHANGED <<servers, config_file, inputSchema, handshakes,
                   langchain_tools, tasks, calls, procs, clientObjs, clients,
                   tool_collections>>
    /\ UNCHANGED regVars
    /\ IF pc = "idle" THEN Forget ELSE UNCHANGED ctlVars

\* ---------------------------------------------------- UnifiedToolManager
\* The native tools a caller registers: one named as the providers' tool,
\* one of its own.
NativeTools ==
    {[name |-> <<"search">>, description |-> <<"Web", "Search">>],
     [name |-> <<"calc">>, description |-> <<"Adds", "Files">>]}

\* The names get_tool is asked for and the keywords search_tools is given.
QueryNames == {<<"search">>, <<"calc">>, <<"A", "search">>, <<"none">>}
Keywords == {<<"Search">>, <<"files">>, <<"find", "files">>, <<"zip">>}

\* register_langchain_tool
RegisterLangchainTool(t) ==
    /\ pc = "idle"
    /\ langchain_tools' = Put(langchain_tools, t.name, t)
    /\ ret' = [NoRet EXCEPT !.op = "register_langchain_tool", !.key = t.name]
    /\ UNCHANGED <<servers, config_file, declared, inputSchema, handshakes,
                   tasks, calls, procs, clientObjs, clients, tool_collections>>
    /\ UNCHANGED regVars
    /\ Forget

\* MCPRegistry.get_tool
RegistryGetTool(name) ==
    IF name \in DOMAIN mcp_tools THEN McpTool(mcp_tools[name]) ELSE NoTool

UnifiedGetToolRegistryFirst(name) ==
    IF name \in DOMAIN mcp_tools THEN McpTool(mcp_tools[name])
    ELSE IF name \in DOMAIN langchain_tools THEN NativeTool(name)
    ELSE NoTool

\* UnifiedToolManager.get_tool
UnifiedGetTool(name) ==
    IF name \in DOMAIN langchain_tools THEN NativeTool(name)
    ELSE RegistryGetTool(name)

\* list(self.langchain_tools.values())
LangchainTools ==
    LET ks == Keys(DOMAIN langchain_tools)
    IN  [i \in 1..Len(ks) |-> NativeTool(ks[i])]

McpTools(ids) == [i \in 1..Len(ids) |-> McpTool(ids[i])]

\* UnifiedToolManager.get_all_tools
UnifiedGetAllTools == LangchainTools \o McpTools(RegistryGetAllTools)

\* UnifiedToolManager.search_tools
UnifiedSearchTools(keyword) ==
    LET Hit(t) == Matches(t.name, langchain_tools[t.name].description, keyword)
    IN  SelectSeq(LangchainTools, Hit)
            \o McpTools(RegistrySearchTools(keyword))

\* A call that reads the tools and changes nothing returns r.
Query(r) ==
    /\ pc = "idle"
    /\ ret' = r
    /\ UNCHANGED supVars
    /\ UNCHANGED regVars
    /\ Forget

GetTool(name) ==
    Query([NoRet EXCEPT !.op = "get_tool", !.key = name,
                        !.tool = UnifiedGetTool(name)])

GetAllTools ==
    Query([NoRet EXCEPT !.op = "get_all_tools", !.list = UnifiedGetAllTools])

SearchTools(keyword) ==
    Query([NoRet EXCEPT !.op = "search_tools", !.keyword = keyword,
                        !.list = UnifiedSearchTools(keyword)])

\* MCPRegistry.get_stats: the generator expressions at 283-286 and 297-300
\* end in "if a() if b else True", a conditional expression where the
\* grammar admits none, so compiling them is a SyntaxError.
GetStats ==
    Query([NoRet EXCEPT !.op = "get_stats", !.raised = "SyntaxError"])

\* UnifiedToolManager.get_stats: mcp_registry.get_stats() is its second
\* statement, and what that raises leaves it.
UnifiedGetStats ==
    Query([NoRet EXCEPT !.op = "unified_get_stats", !.raised = "SyntaxError"])

\* UnifiedToolManager.cleanup: await self.mcp_registry.unload_all_tools()
UnifiedCleanup ==
    /\ pc = "idle"
    /\ mcp_tools' = UnloadEach(mcp_tools, mcp_tools_by_server,
                               DOMAIN mcp_tools_by_server)
    /\ mcp_tools_by_server' = EmptyMap
    /\ loaded_servers' = loaded_servers \ DOMAIN mcp_tools_by_server
    /\ UNCHANGED adapters
    /\ loadOrder' = Tainted
    /\ ret' = [NoRet EXCEPT !.op = "cleanup"]
    /\ UNCHANGED supVars
    /\ Forget

\* --------------------------------------------------------- specifications
\* The supervisor on its own, over every configuration.
SupInit ==
    /\ InitCommon
    /\ servers \in [Providers -> Configs]
    /\ declared = [p \in Providers |-> <<>>]
    /\ inputSchema = [p \in Providers |-> MsgRequired]
    /\ handshakes = [p \in Providers |-> Kinds]

SupNext ==
    \/ \E n \in Names : StartServer(n)
    \/ Attempt
    \/ Read
    \/ \E n \in Names : StopServer(n)
    \/ \E n \in Names : RestartServer(n)
    \/ \E i \in 1..Len(procs) : ProcExit(i)

Spec == SupInit /\ [][SupNext]_vars

\* The program takes every step it can; a provider process owes nothing.
FairSpec ==
    /\ SupInit
    /\ [][SupNext]_vars
    /\ WF_vars(Attempt)
    /\ WF_vars(Read)

\* The registry over the supervisor, over every tool declaration.
RegInit ==
    /\ InitCommon
    /\ servers = [p \in Providers |-> [retry_count |-> 1, timeout |-> DefaultTimeout]]
    /\ declared \in [Providers -> DeclLists]
    /\ inputSchema = [p \in Providers |-> MsgRequired]
    /\ handshakes = [p \in Providers |-> {"ok"}]

RegNext ==
    \/ \E n \in Names : LoadServerTools(n)
    \/ \E n \in Names : UnloadServerTools(n)
    \/ UnloadAllTools
    \/ Attempt
    \/ Read
    \/ \E n \in Names : StopServer(n)
    \/ \E i \in 1..Len(procs) : ProcExit(i)

RegSpec == RegInit /\ [][RegNext]_vars

\* Bulk loading, over every choice of auto_start.
BulkInit ==
    /\ InitCommon
    /\ servers \in [Providers -> [retry_count : {1}, timeout : {DefaultTimeout},
                                  auto_start : BOOLEAN]]
    /\ declared \in [Providers -> {<<>>, <<<<"search">>>>}]
    /\ inputSchema = [p \in Providers |-> MsgRequired]
    /\ handshakes = [p \in Providers |-> {"ok"}]

BulkNext ==
    \/ LoadAllTools
    \/ ReloadTools
    \/ NextAuto
    \/ Attempt
    \/ Read
    \/ \E n \in Providers : LoadServerTools(n)
    \/ \E n \in Providers : StopServer(n)
    \/ \E i \in 1..Len(procs) : ProcExit(i)

BulkSpec == BulkInit /\ [][BulkNext]_vars

\* The configuration of the supervisor and its file.  The configs that
\* are registered: a name of the user's or a built-in one, with either
\* value of auto_start and two values of retry_count.
UserConfigs ==
    {Config(n, <<"echo", "test">>, "test server", a, 5, r) :
        n \in {"A", "filesystem"}, a \in BOOLEAN, r \in {1, DefaultRetryCount}}

CfgInit ==
    /\ InitCommon
    /\ servers = NewManager(NoFile)
    /\ declared = [p \in Providers |-> <<>>]
    /\ inputSchema = [p \in Providers |-> MsgRequired]
    /\ handshakes = [p \in Providers |-> Kinds]

CfgNext ==
    \/ \E c \in UserConfigs : RegisterServer(c)
    \/ \E n \in DOMAIN servers : UnregisterServer(n)
    \/ SaveConfig
    \/ LoadConfigFile
    \/ Construct

CfgSpec == CfgInit /\ [][CfgNext]_vars

\* Adapters and clients in use, over every input schema of provider A.
CallInit ==
    /\ InitCommon
    /\ servers = [p \in Providers |->
                    [retry_count |-> 1, timeout |-> DefaultTimeout]]
    /\ declared = [p \in Providers |-> <<<<"search">>>>]
    /\ inputSchema \in {f \in [Providers -> Schemas] : f["B"] = MsgRequired}
    /\ handshakes = [p \in Providers |-> {"ok"}]

\* The provider in use.
CallProviders == {"A"}

CallNext ==
    \/ \E n \in CallProviders : LoadServerTools(n)
    \/ Attempt
    \/ Read
    \/ \E n \in CallProviders : StopServer(n)
    \/ \E i \in 1..Len(procs) : ProcExit(i)
    \/ \E i \in 1..Len(procs) : ProcCloseStdout(i)
    \/ \E k \in DOMAIN mcp_tools : \E args \in ArgSets : Invoke(k, args)
    \/ \E n \in CallProviders : \E method \in Methods : \E args \in ArgSets :
          ClientCall(n, method, <<"search">>, args)
    \/ CallRead

CallSpec == CallInit /\ [][CallNext]_vars

\* UnifiedToolManager over the registry and the supervisor.
UniInit ==
    /\ InitCommon
    /\ servers = [p \in Providers |->
                    [retry_count |-> 1, timeout |-> DefaultTimeout]]
    /\ declared \in [Providers -> {<<>>, <<<<"search">>>>}]
    /\ inputSchema = [p \in Providers |-> MsgRequired]
    /\ handshakes = [p \in Providers |-> {"ok"}]

UniNext ==
    \/ \E t \in NativeTools : RegisterLangchainTool(t)
    \/ \E n \in Providers : LoadServerTools(n)
    \/ Attempt
    \/ Read
    \/ \E i \in 1..Len(procs) : ProcExit(i)
    \/ \E name \in QueryNames : GetTool(name)
    \/ GetAllTools
    \/ \E keyword \in Keywords : SearchTools(keyword)
    \/ GetStats
    \/ UnifiedGetStats
    \/ UnifiedCleanup

UniSpec == UniInit /\ [][UniNext]_vars

\* Tool lists and their caches, in the client and in the collection.
ListInit ==
    /\ InitCommon
    /\ servers = [p \in Providers |->
                    [retry_count |-> 1, timeout |-> DefaultTimeout]]
    /\ declared \in [Providers -> {<<>>, <<<<"search">>>>}]
    /\ inputSchema = [p \in Providers |-> MsgRequired]
    /\ handshakes = [p \in Providers |-> {"ok"}]

ListNext ==
    \/ \E n \in CallProviders : StartServer(n)
    \/ Attempt
    \/ Read
    \/ \E i \in 1..Len(procs) : ProcExit(i)
    \/ \E n \in CallProviders : CollectionLoadTools(n)
    \/ \E n \in CallProviders : CollectionReloadTools(n)
    \/ \E n \in CallProviders :
          \E list \in {<<>>, <<<<"search">>>>} : Redeclare(n, list)
    \/ \E n \in CallProviders : ClientCall(n, "tools/list", <<>>, EmptyMap)
    \/ CallRead

ListSpec == ListInit /\ [][ListNext]_vars

\* The supervisor's configs, clients and statistics.
AdminInit ==
    /\ InitCommon
    /\ servers \in [Providers -> [retry_count : {1}, timeout : {DefaultTimeout},
                                  auto_start : BOOLEAN]]
    /\ declared = [p \in Providers |-> <<>>]
    /\ inputSchema = [p \in Providers |-> MsgRequired]
    /\ handshakes = [p \in Providers |-> {"ok", "error"}]

AdminNext ==
    \/ \E n \in Providers : StartServer(n)
    \/ Attempt
    \/ Read
    \/ \E n \in Providers : StopServer(n)
    \/ \E i \in 1..Len(procs) : ProcExit(i)
    \/ \E n \in Providers : UnregisterServer(n)
    \/ RunTask
    \/ GetServerStats
    \/ Cleanup

AdminSpec == AdminInit /\ [][AdminNext]_vars

\* The bulk calls of the supervisor, over every choice of auto_start.
AutoInit ==
    /\ InitCommon
    /\ servers \in [Providers -> [retry_count : {1}, timeout : {DefaultTimeout},
                                  auto_start : BOOLEAN]]
    /\ declared = [p \in Providers |-> <<>>]
    /\ inputSchema = [p \in Providers |-> MsgRequired]
    /\ handshakes = [p \in Providers |-> Kinds]

AutoNext ==
    \/ StartAllAutoServers
    \/ NextAuto
    \/ Attempt
    \/ Read
    \/ StopAllServers
    \/ \E i \in 1..Len(procs) : ProcExit(i)

AutoSpec == AutoInit /\ [][AutoNext]_vars

\* The program takes every step it can; a provider process owes nothing.
AutoFairSpec ==
    /\ AutoInit
    /\ [][AutoNext]_vars
    /\ WF_vars(NextAuto)
    /\ WF_vars(Attempt)
    /\ WF_vars(Read)

\* Two providers that declare the same tool, and their adapters in use.
PairInit ==
    /\ InitCommon
    /\ servers = [p \in Providers |->
                    [retry_count |-> 1, timeout |-> DefaultTimeout]]
    /\ declared = [p \in Providers |-> <<<<"search">>>>]
    /\ inputSchema = [p \in Providers |-> MsgRequired]
    /\ handshakes = [p \in Providers |-> {"ok"}]

PairNext ==
    \/ \E n \in Providers : LoadServerTools(n)
    \/ Attempt
    \/ Read
    \/ \E i \in 1..Len(procs) : ProcExit(i)
    \/ \E k \in DOMAIN mcp_tools : Invoke(k, Hi)
    \/ CallRead

PairSpec == PairInit /\ [][PairNext]_vars

\* ------------------------------------------------------------ supervisor
Configured(n) == n \in DOMAIN servers

StartReturned == ret.op = "start_server" /\ Configured(ret.name)

\* C1: every start_server call on a configured provider that returns has
\* either returned true with the supervisor holding a client for the
\* provider whose is_alive() is true, or returned false with the provider
\* reported as stopped.
C1_StartEndsRunningOrStopped ==
    StartReturned =>
        IF ret.ok
        THEN /\ ret.name \in DOMAIN clients
             /\ IsAlive(clientObjs, procs, clients[ret.name])
        ELSE Status(clientObjs, procs, clients, ret.name) = "stopped"

\* C2: a process launched by a start attempt that failed is not alive once
\* that attempt is over, so neither when the next attempt launches nor when
\* start_server returns false.
C2_FailedAttemptProcessStopped ==
    \A i \in 1..Len(procs) : procs[i].failed => ~procs[i].alive

\* start_server with retry_count = 1 is reading the answer of process i,
\* which writes none.
AwaitsSilent(i) ==
    IF pc = "read" /\ i <= Len(procs)
    THEN /\ clientObjs[cur.client].process = i
         /\ procs[i].kind = "silent"
         /\ servers[cur.name].retry_count = 1
    ELSE FALSE

Gone(i) == IF i <= Len(procs) THEN ~procs[i].alive ELSE FALSE

\* C3: start_server on a provider with retry_count = 1 whose process never
\* answers initialize eventually returns, and the process is then not alive.
C3_SilentProviderStartReturns ==
    \A i \in 1..MaxProcs :
        AwaitsSilent(i) ~> (pc = "idle" /\ Gone(i))

\* The client of the start_server call that is running or has just returned
\* after at least one iteration: the last one constructed.
CallClient == Len(clientObjs)
CallName == IF pc = "idle" THEN ret.name ELSE cur.name
InStartCall == pc # "idle" \/ StartReturned

Count(tr, Test(_)) == Cardinality({k \in 1..Len(tr) : Test(tr[k])})
Ran(t) == t.started
Launched(t) == t.started /\ t.result # "popen_fails"
ProcsOf(c) == {i \in 1..Len(procs) : procs[i].client = c}

\* The retry loop of start_server: at most retry_count iterations, none
\* after a successful one, true returned only on a successful attempt (of
\* this call, or of the earlier call that made the provider run), false
\* returned after exactly retry_count failed iterations.
RetryLoopBounded ==
    InStartCall =>
        /\ Len(tries) <= servers[CallName].retry_count
        /\ \A k \in 1..Len(tries) - 1 : tries[k].result # "ok"
        /\ (StartReturned /\ ret.ok) =>
              IF tries = <<>> THEN ret.name \in DOMAIN clients
              ELSE tries[Len(tries)].result = "ok"
        /\ (StartReturned /\ ~ret.ok) =>
              /\ Len(tries) = servers[ret.name].retry_count
              /\ \A k \in 1..Len(tries) : tries[k].result # "ok"

\* C4 as stated: the retry loop is bounded as above, and every run of
\* Client.start() launched one process and wrote one initialize request.
C4_OneLaunchOneExchangePerStart ==
    /\ RetryLoopBounded
    /\ (InStartCall /\ tries # <<>>) =>
          /\ Cardinality(ProcsOf(CallClient)) = Count(tries, Ran)
          /\ clientObjs[CallClient].request_id = Count(tries, Ran)

\* C4 amended: the retry loop is bounded as above, and every run of
\* Client.start() calls Popen once and writes at most one initialize
\* request: one process and one request when Popen succeeds, no process and
\* no request when Popen raises.
C4_AtMostOneExchangePerStart ==
    /\ RetryLoopBounded
    /\ (InStartCall /\ tries # <<>>) =>
          /\ Cardinality(ProcsOf(CallClient)) = Count(tries, Launched)
          /\ clientObjs[CallClient].request_id = Count(tries, Launched)

\* start_server has returned false after two failed iterations, the second
\* of which launched a process.
C4_Witness ==
    /\ StartReturned
    /\ ~ret.ok
    /\ Len(tries) = 2
    /\ tries[1].result = "popen_fails"
    /\ tries[2].result = "error"

\* C5: stop_server never fails and leaves the provider stopped, without
\* client, without tool collection and with the client's process handle
\* released; on a provider that has no client (never started,
\* or just stopped) it changes nothing, so a second stop in a row leaves
\* the state of the first.
C5_StopIdempotent ==
    [][\A n \in Names :
          (ret'.op = "stop_server" /\ ret'.name = n) =>
              /\ ret'.ok
              /\ n \notin DOMAIN clients'
              /\ n \notin DOMAIN tool_collections'
              /\ Status(clientObjs', procs', clients', n) = "stopped"
              /\ n \in DOMAIN clients => clientObjs'[clients[n]].process = 0
              /\ n \notin DOMAIN clients =>
                    /\ UNCHANGED supVars
                    /\ UNCHANGED regVars]_vars

\* stop_server has just stopped a provider whose client held a process.
C5_Witness ==
    /\ ret.op = "stop_server"
    /\ \E c \in 1..Len(clientObjs) :
          /\ clientObjs[c].server_name = ret.name
          /\ clientObjs[c].process = 0
          /\ ProcsOf(c) # {}
          /\ ret.name \notin DOMAIN clients

\* --------------------------------------------------------------- registry
Listed(by, name) ==
    UNION {{<<q, k>> : k \in {j \in 1..Len(by[q]) : by[q][j] = name}} :
              q \in DOMAIN by}

NamesOf(list) == {list[k] : k \in 1..Len(list)}

\* C6: every key of the forward map is listed exactly once, in the list of
\* exactly one provider, and every listed name is a key of the forward map.
C6_IndicesAgree ==
    /\ \A name \in DOMAIN mcp_tools :
          Cardinality(Listed(mcp_tools_by_server, name)) = 1
    /\ \A q \in DOMAIN mcp_tools_by_server :
          NamesOf(mcp_tools_by_server[q]) \subseteq DOMAIN mcp_tools

RECURSIVE SumDeclared(_)
SumDeclared(seq) ==
    IF seq = <<>> THEN 0 ELSE Len(declared[Head(seq)]) + SumDeclared(Tail(seq))

\* C7: after loading providers, each once and in any order, the registry
\* holds as many tools as the providers declared together, each adapter
\* under its declared name or under {provider}_{declared name}.
C7_NoToolDropped ==
    loadOrder.clean =>
        /\ TotalTools(mcp_tools) = SumDeclared(loadOrder.seq)
        /\ \A a \in 1..Len(adapters) :
              LET owner == clientObjs[adapters[a].client].server_name IN
              /\ adapters[a].name \in
                    {adapters[a].schema, Rename(owner, adapters[a].schema)}
              /\ adapters[a].name \in DOMAIN mcp_tools

Search == <<"search">>

\* C8: after loading A and then B, each declaring "search", the registry
\* holds "search" as A's adapter and "B_search" as B's, and as many tools as
\* both declared together.
C8_SearchCollision ==
    (/\ loadOrder.clean
     /\ loadOrder.seq = <<"A", "B">>
     /\ Search \in NamesOf(declared["A"])
     /\ Search \in NamesOf(declared["B"])) =>
        /\ Search \in DOMAIN mcp_tools
        /\ clientObjs[adapters[mcp_tools[Search]].client].server_name = "A"
        /\ Rename("B", Search) \in DOMAIN mcp_tools
        /\ clientObjs[adapters[mcp_tools[Rename("B", Search)]].client].server_name = "B"
        /\ adapters[mcp_tools[Rename("B", Search)]].schema = Search
        /\ TotalTools(mcp_tools) = Len(declared["A"]) + Len(declared["B"])

\* C9: load_server_tools on a provider that is loaded and still running
\* returns the adapters of the first call and leaves the forward map, the
\* reverse map and every adapter's name as they were.
C9_LoadIdempotent ==
    [][\A n \in Providers :
          (/\ ret'.op = "load_server_tools"
           /\ ret'.name = n
           /\ pc = "idle"
           /\ n \in loaded_servers
           /\ n \in DOMAIN clients
           /\ IsAlive(clientObjs, procs, clients[n])
           /\ tool_collections[n].loaded) =>
              /\ ret'.tools = tool_collections[n].tools
              /\ UNCHANGED <<mcp_tools, mcp_tools_by_server, adapters>>]_vars

\* C10: unload_server_tools(p) returns the number of names p had
\* registered, removes each of them from the forward map, lowers the total
\* by that number, and leaves the list and the entries of every other
\* provider as they were.
C10_UnloadRemovesOwnEntries ==
    [][\A n \in Providers :
          (/\ ret'.op = "unload_server_tools"
           /\ ret'.name = n
           /\ n \in DOMAIN mcp_tools_by_server) =>
              LET mine == mcp_tools_by_server[n] IN
              /\ ret'.count = Len(mine)
              /\ NamesOf(mine) \cap DOMAIN mcp_tools' = {}
              /\ TotalTools(mcp_tools') = TotalTools(mcp_tools) - Len(mine)
              /\ n \notin DOMAIN mcp_tools_by_server'
              /\ \A q \in DOMAIN mcp_tools_by_server \ {n} :
                    /\ q \in DOMAIN mcp_tools_by_server'
                    /\ mcp_tools_by_server'[q] = mcp_tools_by_server[q]
                    /\ \A name \in NamesOf(mcp_tools_by_server[q]) \cap DOMAIN mcp_tools :
                          /\ name \in DOMAIN mcp_tools'
                          /\ mcp_tools'[name] = mcp_tools[name]]_vars

\* C11: unload_server_tools and unload_all_tools leave the supervisor as it
\* was: the same clients, each with the same process and liveness, the same
\* tool collections, and every provider in the status it had.
C11_UnloadLeavesSupervisor ==
    [][ret'.op \in {"unload_server_tools", "unload_all_tools"} =>
          /\ clients' = clients
          /\ clientObjs' = clientObjs
          /\ procs' = procs
          /\ tool_collections' = tool_collections
          /\ servers' = servers
          /\ \A n \in Names :
                Status(clientObjs', procs', clients', n)
                    = Status(clientObjs, procs, clients, n)]_vars

\* unload_all_tools has just returned, the index is empty, and a provider
\* whose tools had been loaded still runs.
C11_Witness ==
    /\ ret.op = "unload_all_tools"
    /\ mcp_tools = EmptyMap
    /\ loaded_servers = {}
    /\ \E a \in 1..Len(adapters) :
          LET c == adapters[a].client IN
          /\ IsAlive(clientObjs, procs, c)
          /\ clientObjs[c].server_name \in DOMAIN clients
          /\ clients[clientObjs[c].server_name] = c

\* --------------------------------------------------------------- adapters
Invoked == ret.op = "invoke"
InvokeFailed == Invoked /\ ret.text.kind \notin {"result", "no_content"}

\* C12: an invoke with {"msg": "hi"} through the key of a tool that the
\* running provider declared with required field msg writes exactly one
\* request, a tools/call with that tool's name and exactly those
\* arguments, and returns the text parts of the provider's result.
C12_InvokeDispatchesAsDeclared ==
    (/\ Invoked
     /\ ret.alive
     /\ ret.key \in NamesOf(declared[ret.name])
     /\ adapters[ret.adapter].input = MsgRequired
     /\ ret.args = Hi) =>
        /\ ret.writes = 1
        /\ Len(ret.requests) = 1
        /\ ret.requests[1].method = "tools/call"
        /\ ret.requests[1].name = ret.key
        /\ ret.requests[1].arguments = Hi
        /\ ret.line = Line("result", "list", <<"pong", "image", "more">>) =>
              ret.text = [NoText EXCEPT !.kind = "result",
                                        !.parts = <<"pong", "more">>]
        /\ ret.line = Line("result", "str", <<"pong">>) =>
              ret.text = [NoText EXCEPT !.kind = "result", !.parts = <<"pong">>]

\* C13: an invoke whose arguments lack a field that the tool's schema
\* lists as required fails validation: call_tool is not called and nothing
\* is written to the provider.
C13_MissingRequiredNeverDispatched ==
    (/\ Invoked
     /\ ~(adapters[ret.adapter].input.required \subseteq DOMAIN ret.args)) =>
        /\ ret.raised = "ValidationError"
        /\ ~ret.called
        /\ ret.writes = 0
        /\ ret.requests = <<>>

\* C14: an invoke that fails, whatever the cause, does not raise and
\* returns a text naming the tool and the cause.
C14_OneFailureDiscipline ==
    InvokeFailed =>
        /\ ret.raised = "none"
        /\ ret.text.kind = "failure"
        /\ ret.text.tool = adapters[ret.adapter].name
        /\ ret.text.cause # ""

\* C15: an invoke on an adapter whose client's process does not run at that
\* moment (stopped, or exited on its own) attempts no write, puts no
\* request into the pipe and fails, whatever earlier invokes did.
C15_LivenessCheckedEveryInvoke ==
    (Invoked /\ ~ret.alive) =>
        /\ ret.writes = 0
        /\ ret.requests = <<>>
        /\ InvokeFailed

\* An invoke has failed on a dead client through which an earlier invoke
\* had obtained a result.
C15_Witness ==
    /\ Invoked
    /\ ~ret.alive
    /\ clientObjs[ret.client].served
    /\ ret.text = Failure(adapters[ret.adapter].name, "not_connected")

\* ---------------------------------------------------------------- clients
CallOps == {"invoke", "call_tool", "list_tools", "get_resource"}
LineRead == ret.op \in CallOps /\ ret.line.tag \notin {"none", "eof"}

\* C16: no process has more than one request written to it whose answer has
\* not been read, the request awaited is the one the running call wrote,
\* and the line a call has read answers the request that call wrote.
C16_OneRequestInFlight ==
    /\ \A i \in 1..Len(procs) : Len(procs[i].awaiting) <= 1
    /\ pc = "call_read" =>
          procs[clientObjs[cur.client].process].awaiting = <<cur.request.id>>
    /\ LineRead =>
          /\ Len(ret.requests) = 1
          /\ ret.answers = ret.requests[1].id

\* A call has read the answer to the fourth request of its client, after
\* initialize, tools/list and another call on the same client.
C16_Witness ==
    /\ LineRead
    /\ ret.op = "get_resource"
    /\ ret.answers = MaxRequestId
    /\ clientObjs[ret.client].served

\* C17: a client on which call_tool has read end of file is not alive from
\* then on, no later call on it puts a request into the pipe, and the call
\* that read end of file has raised a connection error.
C17_EofMarksClientDead ==
    /\ \A c \in 1..Len(clientObjs) :
          clientObjs[c].eof => ~IsAlive(clientObjs, procs, c)
    /\ pc = "call_read" => ~clientObjs[cur.client].eof
    /\ (ret.op = "call_tool" /\ ret.line = Eof) => ret.raised = "ConnectionError"

\* C18: start_server, stop_server and restart_server on a name that is not
\* configured raise ConfigurationError and leave the supervisor as it was.
C18_UnknownNameRaises ==
    [][(/\ ret'.op \in {"start_server", "stop_server", "restart_server"}
        /\ ret'.name \notin DOMAIN servers) =>
          /\ ret'.raised = "ConfigurationError"
          /\ UNCHANGED supVars]_vars

\* ---------------------------------------------------------- configuration
SameConfig(c, d) ==
    /\ c.name = d.name
    /\ c.command = d.command
    /\ c.description = d.description
    /\ c.auto_start = d.auto_start
    /\ c.timeout = d.timeout
    /\ c.retry_count = d.retry_count

\* C19: a supervisor constructed from the file save_config wrote has the
\* names that were registered when it was written and, under each name, the
\* same command, description, auto_start, timeout and retry_count; and
\* from_dict gives back every config that to_dict was applied to.
C19_ConfigRoundTrip ==
    /\ (ret.op = "construct" /\ config_file.exists) =>
          /\ DOMAIN servers = DOMAIN config_file.saved
          /\ \A n \in DOMAIN servers \cap DOMAIN config_file.saved :
                SameConfig(servers[n], config_file.saved[n])
    /\ \A n \in DOMAIN servers : SameConfig(FromDict(ToDict(servers[n])), servers[n])

\* C29: load_config leaves every config whose name is not in the file as
\* it was, registers under each name of the file the config the file
\* holds, adds no other name, and changes nothing when there is no file.
C29_LoadConfigMerges ==
    [][ret'.op = "load_config" =>
          /\ \A n \in DOMAIN servers \ DOMAIN config_file.saved :
                n \in DOMAIN servers' /\ servers'[n] = servers[n]
          /\ \A n \in DOMAIN config_file.saved :
                n \in DOMAIN servers'
                    /\ SameConfig(servers'[n], config_file.saved[n])
          /\ DOMAIN servers' = DOMAIN servers \cup DOMAIN config_file.saved
          /\ ~config_file.exists => servers' = servers]_vars

\* A load that kept a config the file does not have and brought back one
\* that had been unregistered.
C29_Witness ==
    /\ ret.op = "load_config"
    /\ config_file.exists
    /\ "filesystem" \in DOMAIN servers \ DOMAIN config_file.saved
    /\ "A" \in DOMAIN config_file.saved
    /\ \E n \in DOMAIN config_file.saved :
          servers[n].retry_count = 1 /\ servers[n].auto_start

\* ------------------------------------------------------------ bulk loading
BulkReturned == ret.op \in {"load_all_tools", "reload_tools"}

\* C20: when load_all_tools or reload_tools returns, every auto-start
\* provider that is running has an entry in the returned map, with the
\* number of tools it declares, and its tools are in the index.
C20_BulkLoadLoadsRunning ==
    BulkReturned =>
        \A n \in Providers :
            (/\ servers[n].auto_start
             /\ Status(clientObjs, procs, clients, n) = "running") =>
                /\ n \in DOMAIN ret.loaded
                /\ ret.loaded[n] = Len(declared[n])
                /\ n \in loaded_servers
                /\ declared[n] # <<>> => n \in DOMAIN mcp_tools_by_server

\* ---------------------------------------------------- UnifiedToolManager
\* C21: when UnifiedToolManager.cleanup() has returned, the supervisor
\* holds no client and no provider process runs.
C21_CleanupTearsDownProviders ==
    ret.op = "cleanup" =>
        /\ clients = EmptyMap
        /\ \A i \in 1..Len(procs) : ~procs[i].alive

\* --------------------------------------------------------- cached lists
\* The names in the schemas the adapters ids were built from.
BuiltFrom(ads, ids) == [k \in 1..Len(ids) |-> ads[ids[k]].schema]

\* C22: the load_tools() that follows a collection's reload_tools(), on a
\* provider that runs, writes a tools/list request and builds its adapters
\* from what the provider declares then.
C22_ReloadThenLoadAsksAgain ==
    [][(/\ ret.op = "collection_reload_tools"
        /\ ret'.op = "load_tools"
        /\ ret'.name = ret.name
        /\ ret'.alive)
          => /\ ret'.writes = 1
             /\ BuiltFrom(adapters', ret'.tools) = declared[ret.name]]_vars

\* The cache of client c holds a list.
Holds(objs, c) == objs[c].tools_cache.set

\* C23: a list_tools() that finds the cache writes nothing, returns the
\* cached list and leaves the client as it was; the first one that succeeds
\* stores what it returns; one that fails returns [] and stores nothing;
\* one that finds no cache on a running process writes its request; and a
\* stored list is never replaced.
C23_ListToolsCachesFirstSuccess ==
    [][/\ \A c \in 1..Len(clientObjs) :
            Holds(clientObjs, c) =>
                clientObjs'[c].tools_cache = clientObjs[c].tools_cache
       /\ (ret'.op = "list_tools" /\ ret' # ret) =>
            LET c == ret'.client IN
            /\ Holds(clientObjs, c) =>
                  /\ ret'.writes = 0
                  /\ ret'.schemas = clientObjs[c].tools_cache.tools
                  /\ clientObjs' = clientObjs
            /\ (~Holds(clientObjs, c) /\ ret'.ok) =>
                  clientObjs'[c].tools_cache = Cache(ret'.schemas)
            /\ ~ret'.ok =>
                  /\ ret'.schemas = <<>>
                  /\ ~Holds(clientObjs', c)
            /\ (~Holds(clientObjs, c) /\ ret'.alive) => ret'.writes = 1]_vars

\* A call answered from the cache after the provider changed its list.
C23_Witness ==
    /\ ret.op = "list_tools"
    /\ ret.writes = 0
    /\ ret.ok
    /\ ret.schemas # <<>>
    /\ ret.schemas # declared[ret.name]

\* ------------------------------------------------------------ statistics
RECURSIVE SumOver(_, _)
SumOver(f, S) ==
    IF S = {} THEN 0
    ELSE LET x == CHOOSE y \in S : TRUE IN f[x] + SumOver(f, S \ {x})

\* C24: MCPRegistry.get_stats() returns statistics in which total_tools is
\* available_tools + unavailable_tools, available_tools counts the
\* registered tools whose client's process runs, and the per-provider
\* total_tools and available_tools add up to the overall ones.
C24_RegistryStatsAddUp ==
    ret.op = "get_stats" =>
        /\ ret.raised = "none"
        /\ LET st == ret.stats IN
           /\ st.total_tools = st.available_tools + st.unavailable_tools
           /\ st.available_tools =
                  Cardinality({k \in DOMAIN mcp_tools :
                                  ProcessRuns(adapters[mcp_tools[k]].client)})
           /\ SumOver([p \in DOMAIN st.servers |-> st.servers[p].total_tools],
                      DOMAIN st.servers) = st.total_tools
           /\ SumOver([p \in DOMAIN st.servers |->
                          st.servers[p].available_tools],
                      DOMAIN st.servers) = st.available_tools

\* C25: get_server_stats() returns, without raising, total_servers = the
\* number of configs, running_servers = the number of configured providers
\* whose client's process runs, stopped_servers = their difference and not
\* negative, and a status entry for every config.
C25_ServerStatsForEveryState ==
    ret.op = "get_server_stats" =>
        /\ ret.raised = "none"
        /\ LET st == ret.stats IN
           /\ st.total_servers = Cardinality(DOMAIN servers)
           /\ st.running_servers =
                  Cardinality({n \in DOMAIN servers \cap DOMAIN clients :
                                  ProcessRuns(clients[n])})
           /\ st.stopped_servers = st.total_servers - st.running_servers
           /\ st.stopped_servers >= 0
           /\ DOMAIN st.servers = DOMAIN servers

\* The processes of provider n that run.
LiveProcs(n) ==
    {i \in 1..Len(procs) :
        procs[i].alive /\ clientObjs[procs[i].client].server_name = n}

\* C26: when unregister_server(p) has returned the supervisor holds no
\* client for p and no process of p runs; and the supervisor never holds a
\* client whose process runs under a name that has no config.
C26_UnregisterStopsFirst ==
    /\ ret.op = "unregister_server" =>
          /\ ret.name \notin DOMAIN clients
          /\ LiveProcs(ret.name) = {}
    /\ \A n \in DOMAIN clients :
          ProcessRuns(clients[n]) => n \in DOMAIN servers

\* ------------------------------------------------------------ bulk calls
AutoStart == {n \in DOMAIN servers : servers[n].auto_start}

\* C28: a start_all_auto_servers() that has begun returns, and returns one
\* result for each auto_start provider; when stop_all_servers() has
\* returned, it has a result for every provider that had a client, no
\* client remains and no process that a client was registered with runs.
C28_BulkStartStopCoverAll ==
    /\ (pc = "auto" /\ cur.caller = "start_all_auto_servers")
          ~> (ret.op = "start_all_auto_servers")
    /\ [](ret.op = "start_all_auto_servers" =>
             DOMAIN ret.results = AutoStart)
    /\ [](ret.op = "stop_all_servers" =>
             /\ clients = EmptyMap
             /\ DOMAIN ret.results \subseteq DOMAIN servers
             /\ \A i \in 1..Len(procs) :
                   ~procs[i].failed => ~procs[i].alive)

\* ---------------------------------------------------- UnifiedToolManager
\* C27: get_tool(name) returns the native tool of that name whenever there
\* is one, whatever the registry holds under the name, and an adapter of
\* the registry only for a name no native tool has.
C27_NativeToolWins ==
    ret.op = "get_tool" =>
        /\ ret.key \in DOMAIN langchain_tools => ret.tool = NativeTool(ret.key)
        /\ ret.tool.kind = "mcp" =>
              /\ ret.key \notin DOMAIN langchain_tools
              /\ ret.key \in DOMAIN mcp_tools
              /\ ret.tool.id = mcp_tools[ret.key]
        /\ ret.tool.kind = "none" =>
              ret.key \notin DOMAIN langchain_tools \cup DOMAIN mcp_tools

\* The name asked for is held by a native tool and by the registry.
C27_Witness ==
    /\ ret.op = "get_tool"
    /\ ret.key \in DOMAIN langchain_tools \cap DOMAIN mcp_tools
    /\ ret.tool.kind = "native"

Elements(seq) == {seq[i] : i \in 1..Len(seq)}

\* keyword occurs in text, whatever the case of either.
Occurs(keyword, text) ==
    \E i \in 0..(Len(text) - Len(keyword)) :
        \A j \in 1..Len(keyword) : Lower(text[i + j]) = Lower(keyword[j])

NativeHits(keyword) ==
    {NativeTool(k) : k \in {x \in DOMAIN langchain_tools :
        Occurs(keyword, x) \/ Occurs(keyword, langchain_tools[x].description)}}

RegistryHits(keyword) ==
    {McpTool(mcp_tools[k]) : k \in {x \in DOMAIN mcp_tools :
        \/ Occurs(keyword, adapters[mcp_tools[x]].name)
        \/ Occurs(keyword, adapters[mcp_tools[x]].description)}}

\* The native tools of list come before its registry tools.
NativeFirst(list) ==
    \A i, j \in 1..Len(list) :
        (list[i].kind = "mcp" /\ list[j].kind = "native") => j < i

\* C30: get_all_tools() returns every native tool and then every tool of
\* the registry; search_tools(k) returns the native and the registry tools
\* whose name or description contains k in any case, and no other; and
\* get_stats() returns total_tools = the number of native tools + the
\* total_tools of the registry's statistics.
C30_UnifiedViews ==
    /\ ret.op = "get_all_tools" =>
          /\ Elements(ret.list) =
                {NativeTool(k) : k \in DOMAIN langchain_tools}
                    \cup {McpTool(mcp_tools[k]) : k \in DOMAIN mcp_tools}
          /\ Len(ret.list) = Cardinality(DOMAIN langchain_tools)
                                 + Cardinality(DOMAIN mcp_tools)
          /\ NativeFirst(ret.list)
    /\ ret.op = "search_tools" =>
          /\ Elements(ret.list) =
                NativeHits(ret.keyword) \cup RegistryHits(ret.keyword)
          /\ NativeFirst(ret.list)
    /\ ret.op = "unified_get_stats" =>
          /\ ret.raised = "none"
          /\ ret.stats.total_tools =
                Cardinality(DOMAIN langchain_tools)
                    + ret.stats.mcp_tools.total_tools

\* ------------------------------------------------------- renamed adapters
\* C31: the tools/call request an adapter of the registry writes names the
\* tool as its provider declared it, also when the registry renamed the
\* adapter.
C31_CallsByDeclaredName ==
    (Invoked /\ ret.requests # <<>>) =>
        ret.requests[1].name = adapters[ret.adapter].schema

\* C32: every key of the forward map holds an adapter whose name is that
\* key, and no adapter is held under two keys.
C32_KeysNameTheirAdapters ==
    /\ \A k \in DOMAIN mcp_tools : adapters[mcp_tools[k]].name = k
    /\ \A j, k \in DOMAIN mcp_tools : mcp_tools[j] = mcp_tools[k] => j = k

\* Provider n has a client in the supervisor after an earlier client of it.
Restarted(n) ==
    /\ n \in DOMAIN clients
    /\ \E c \in 1..Len(clientObjs) :
          c < clients[n] /\ clientObjs[c].server_name = n

\* C33: when load_server_tools(p) has returned tools for a provider p that
\* was loaded, stopped or dead, and started again, and runs, every name p
\* declares is a key of the registry whose adapter is bound to the client
\* the supervisor holds for p now, and the registry lists as many tools
\* for p as p declares.  Only p has tools in the registry and no adapter
\* was registered twice, so what is left is the restart itself.
C33_ReloadBindsCurrentClient ==
    (/\ ret.op = "load_server_tools"
     /\ ret.tools # <<>>
     /\ Restarted(ret.name)
     /\ ProcessRuns(clients[ret.name])
     /\ DOMAIN mcp_tools_by_server \subseteq {ret.name}
     /\ \A j, k \in DOMAIN mcp_tools : mcp_tools[j] = mcp_tools[k] => j = k) =>
        /\ \A t \in NamesOf(declared[ret.name]) :
              /\ t \in DOMAIN mcp_tools
              /\ adapters[mcp_tools[t]].client = clients[ret.name]
        /\ Len(mcp_tools_by_server[ret.name]) = Len(declared[ret.name])

\* ------------------------------------- start_server calls side by side
\* A start_server call made while others are in flight: where it is
\* ("await": suspended in wait_for before client.start() has run,
\* "resume": client.start() has ended and the call has yet to go on,
\* "done": returned), its client, its loop variable, what client.start()
\* gave and what the call returned.
NewCall(n, c, at, ok) ==
    [name |-> n, client |-> c, attempt |-> 0, at |-> at, success |-> FALSE,
     ok |-> ok]

\* start_server 206-229 up to the suspension in wait_for: the two checks,
\* the new client, the first iteration's await.
CallStartServer(n) ==
    /\ pc = "idle"
    /\ Len(calls) < MaxCalls
    /\ IF n \notin DOMAIN servers
       THEN /\ calls' = Append(calls, NewCall(n, 0, "done", FALSE))
            /\ ret' = StartRet(n, FALSE)
            /\ UNCHANGED clientObjs
       ELSE IF n \in DOMAIN clients /\ IsAlive(clientObjs, procs, clients[n])
       THEN /\ calls' = Append(calls, NewCall(n, clients[n], "done", TRUE))
            /\ ret' = StartRet(n, TRUE)
            /\ UNCHANGED clientObjs
       ELSE /\ Len(clientObjs) < MaxClients
            /\ clientObjs' = Append(clientObjs,
                                 [server_name |-> n, process |-> 0,
                                  request_id |-> 0, tools_cache |-> NoCache,
                                  eof |-> FALSE, served |-> FALSE])
            /\ IF servers[n].retry_count = 0
               THEN /\ calls' = Append(calls, NewCall(n, Len(clientObjs) + 1,
                                                      "done", FALSE))
                    /\ ret' = StartRet(n, FALSE)
               ELSE /\ calls' = Append(calls, NewCall(n, Len(clientObjs) + 1,
                                                      "await", FALSE))
                    /\ ret' = NoRet
    /\ UNCHANGED <<servers, config_file, declared, inputSchema, handshakes,
                   langchain_tools, tasks, procs, clients, tool_collections>>
    /\ UNCHANGED regVars
    /\ UNCHANGED ctlVars

\* The task wait_for made of client.start() runs (MCPClient.start 39-72,
\* _send_request 99-119): it has no suspension point, so the launch, the
\* initialize request and the readline are one step.  With timeout <= 0
\* wait_for cancels it before it runs.
RunStart(i) ==
    /\ pc = "idle"
    /\ calls[i].at = "await"
    /\ LET c == calls[i].client
           n == calls[i].name
       IN IF servers[n].timeout <= 0
          THEN /\ calls' = [calls EXCEPT ![i].at = "resume",
                                          ![i].success = FALSE]
               /\ UNCHANGED <<procs, clientObjs>>
          ELSE \E launch \in handshakes[n] \cup {"popen_fails"} :
               IF launch = "popen_fails"
               THEN /\ calls' = [calls EXCEPT ![i].at = "resume",
                                               ![i].success = FALSE]
                    /\ UNCHANGED <<procs, clientObjs>>
               ELSE /\ Len(procs) < MaxProcs
                    /\ LET new == [client |-> c, kind |-> launch,
                                   alive |-> TRUE, out |-> TRUE,
                                   failed |-> FALSE, awaiting |-> <<>>]
                       IN \E line \in ReadableLines(new) :
                            /\ procs' = Append(procs,
                                  [new EXCEPT !.failed = ~StartSucceeded(line)])
                            /\ calls' = [calls EXCEPT
                                            ![i].at = "resume",
                                            ![i].success = StartSucceeded(line)]
                    /\ clientObjs' = NextId([clientObjs EXCEPT
                                                ![c].process = Len(procs) + 1], c)
    /\ ret' = NoRet
    /\ UNCHANGED <<servers, config_file, declared, inputSchema, handshakes,
                   langchain_tools, tasks, clients, tool_collections>>
    /\ UNCHANGED regVars
    /\ UNCHANGED ctlVars

\* The call goes on after wait_for (start_server 230-249): a success
\* stores the client and a new collection and returns True; otherwise the
\* next iteration awaits, or the call returns False.
ResumeStart(i) ==
    /\ pc = "idle"
    /\ calls[i].at = "resume"
    /\ LET c == calls[i].client
           n == calls[i].name
       IN IF calls[i].success
          THEN /\ clients' = Put(clients, n, c)
               /\ tool_collections' = Put(tool_collections, n, NewCollection(c))
               /\ calls' = [calls EXCEPT ![i].at = "done", ![i].ok = TRUE]
               /\ ret' = StartRet(n, TRUE)
          ELSE /\ UNCHANGED <<clients, tool_collections>>
               /\ IF calls[i].attempt + 1 < servers[n].retry_count
                  THEN /\ calls' = [calls EXCEPT ![i].at = "await",
                                                  ![i].attempt = @ + 1]
                       /\ ret' = NoRet
                  ELSE /\ calls' = [calls EXCEPT ![i].at = "done"]
                       /\ ret' = StartRet(n, FALSE)
    /\ UNCHANGED <<servers, config_file, declared, inputSchema, handshakes,
                   langchain_tools, tasks, procs, clientObjs>>
    /\ UNCHANGED regVars
    /\ UNCHANGED ctlVars

\* Providers whose processes answer initialize, called side by side.
RaceInit ==
    /\ InitCommon
    /\ servers = [p \in Providers |->
                    [retry_count |-> MaxRetry, timeout |-> DefaultTimeout]]
    /\ declared = [p \in Providers |-> <<>>]
    /\ inputSchema = [p \in Providers |-> MsgRequired]
    /\ handshakes = [p \in Providers |-> {"ok"}]

RaceNext ==
    \/ \E n \in Providers : CallStartServer(n)
    \/ \E i \in 1..Len(calls) : RunStart(i)
    \/ \E i \in 1..Len(calls) : ResumeStart(i)
    \/ \E i \in 1..Len(procs) : ProcExit(i)

RaceSpec == RaceInit /\ [][RaceNext]_vars

\* The processes of provider n that are alive.
LiveOf(n) ==
    {i \in 1..Len(procs) :
        procs[i].alive /\ clientObjs[procs[i].client].server_name = n}

AllReturned ==
    /\ calls # <<>>
    /\ \A i \in 1..Len(calls) : calls[i].at = "done"

\* C34: once every start_server call made side by side has returned, each
\* provider has at most one live process, and every live process is the
\* one held by the client the supervisor keeps for its provider.
C34_ConcurrentStartsOneProcess ==
    AllReturned =>
        \A n \in Providers :
            /\ Cardinality(LiveOf(n)) <= 1
            /\ \A i \in LiveOf(n) :
                  /\ n \in DOMAIN clients
                  /\ clientObjs[clients[n]].process = i

\* C35: a call_tool or get_resource whose response line carries an error
\* object raises an exception with the content of that object, one whose
\* line has neither result nor error raises as an invalid response; neither
\* returns a result, and the request was written once and no other request
\* was built.
C35_ErrorLinesRaiseOnce ==
    (/\ ret.op \in {"call_tool", "get_resource"}
     /\ ret.line.tag \in {"error", "no_result"}) =>
        /\ ~ret.ok
        /\ ret.raised = "Exception"
        /\ ret.text = IF ret.line.tag = "error"
                      THEN Raised("provider_error", ErrorObject)
                      ELSE Raised("invalid_response", ret.line)
        /\ ret.text.parts = IF ret.line.tag = "error" THEN <<"denied">>
                            ELSE <<>>
        /\ ret.writes = 1
        /\ Len(ret.requests) = 1
        /\ clientObjs[ret.client].request_id = ret.requests[1].id

C35_Witness ==
    /\ ret.op = "call_tool"
    /\ ret.line = ErrorObject
    /\ ret.raised = "Exception"

\* C36: a load_tools on a collection on which the tools/list request of an
\* earlier load_tools failed asks the client for the list again (the
\* client answers from its own cache or builds a request), and returns
\* the listed tools when the client has the list afterwards.
C36_FailedLoadIsNotCached ==
    [][(/\ ret'.op = "load_tools"
        /\ ret'.name \in DOMAIN tool_collections
        /\ tool_collections[ret'.name].failed) =>
          LET c == tool_collections[ret'.name].client IN
          /\ IF Cached(clientObjs, c) THEN TRUE
             ELSE clientObjs'[c].request_id = clientObjs[c].request_id + 1
          /\ Cached(clientObjs', c) =>
                ret'.count = Len(clientObjs'[c].tools_cache.tools)]_vars

\* C37: when unload_server_tools(p) has returned, p is not among the
\* loaded servers; when unload_all_tools has returned, the loaded servers
\* and both indices are empty.
C37_UnloadClearsLoadedServers ==
    /\ ret.op = "unload_server_tools" => ret.name \notin loaded_servers
    /\ ret.op = "unload_all_tools" =>
          /\ loaded_servers = {}
          /\ mcp_tools = EmptyMap
          /\ mcp_tools_by_server = EmptyMap

IsTextBlock(b) == b # "image"

\* C38: the text an invoke returns for a result whose content is a text
\* block is that block's text, for a bare value that value, and for a
\* list of blocks the texts of its blocks in their order; nothing but the
\* content enters it.
C38_NormalizeEveryShape ==
    (/\ Invoked
     /\ ret.line.tag = "result"
     /\ ret.line.shape \in {"dict", "str", "number", "list"}
     /\ ret.line.blocks # <<>>) =>
        ret.text = [NoText EXCEPT
                       !.kind = "result",
                       !.parts = IF ret.line.shape = "list"
                                 THEN SelectSeq(ret.line.blocks, IsTextBlock)
                                 ELSE ret.line.blocks]

\* C39: an invoke is rejected by the adapter's validator exactly when a
\* name of the required list of its tool's inputSchema is missing from the
\* arguments.
C39_RejectsExactlyMissingRequired ==
    Invoked =>
        (ret.raised = "ValidationError"
            <=> ~(adapters[ret.adapter].input.required \subseteq DOMAIN ret.args))

\* ------------------------------------------------ request ids of a client
\* One provider whose processes may answer initialize with an error, with
\* two start attempts, and every request a client sends.
IdInit ==
    /\ InitCommon
    /\ servers = [p \in Providers |->
                    [retry_count |-> MaxRetry, timeout |-> DefaultTimeout]]
    /\ declared = [p \in Providers |-> <<<<"search">>>>]
    /\ inputSchema = [p \in Providers |-> MsgRequired]
    /\ handshakes = [p \in Providers |-> {"ok", "error"}]

IdNext ==
    \/ \E n \in CallProviders : StartServer(n)
    \/ Attempt
    \/ Read
    \/ \E n \in CallProviders : StopServer(n)
    \/ \E i \in 1..Len(procs) : ProcExit(i)
    \/ \E n \in CallProviders : CollectionLoadTools(n)
    \/ \E n \in CallProviders : \E method \in Methods :
          ClientCall(n, method, <<"search">>, Hi)
    \/ CallRead

IdSpec == IdInit /\ [][IdNext]_vars

\* The counter of client c before the step; a client made in the step
\* starts from 0.
IdBefore(c) == IF c <= Len(clientObjs) THEN clientObjs[c].request_id ELSE 0

\* The requests in the pipe of process i before the step.
PipeBefore(i) == IF i <= Len(procs) THEN Len(procs[i].awaiting) ELSE 0

\* C40: in every step the request counter of every client stays or grows
\* by one; a request that enters a pipe or is built for a call in that
\* step carries the grown counter, one more than the id of the client's
\* previous request, so no id is issued twice.
C40_RequestIdsCountUp ==
    [][/\ \A c \in 1..Len(clientObjs') :
            /\ clientObjs'[c].request_id \in {IdBefore(c), IdBefore(c) + 1}
            /\ c <= Len(clientObjs) =>
                  clientObjs'[c].server_name = clientObjs[c].server_name
       /\ \A i \in 1..Len(procs') :
            Len(procs'[i].awaiting) > PipeBefore(i) =>
                LET id == procs'[i].awaiting[Len(procs'[i].awaiting)]
                    c == procs'[i].client
                IN /\ id = IdBefore(c) + 1
                   /\ id = clientObjs'[c].request_id
       /\ (pc' = "call_read" /\ pc # "call_read") =>
             /\ cur'.request.id = IdBefore(cur'.client) + 1
             /\ cur'.request.id = clientObjs'[cur'.client].request_id
       /\ (ret'.requests # <<>> /\ ret' # ret) =>
             ret'.requests[1].id = clientObjs'[ret'.client].request_id]_vars

\* A client whose first start attempt failed has sent its third request,
\* a tools/call.
C40_Witness ==
    /\ ret.op = "call_tool"
    /\ ret.requests # <<>>
    /\ ret.requests[1].id = 3
    /\ \E i \in 1..Len(procs) : procs[i].client = ret.client /\ procs[i].failed

====
